---- MODULE Spec2Model ----
(***************************************************************************)
(* KompiTech/rmap: the Rmap document type (a Go map[string]interface{}     *)
(* behind a struct) and its JSON-pointer navigator.                        *)
(*                                                                         *)
(* Go maps and slices are reference values, so the model keeps a heap of   *)
(* map and array objects and documents hold references into it.  Strings   *)
(* (keys, pointer strings, tokens) are sequences of one-character strings  *)
(* so that Split, Join, the '/' prefix test and the ~0/~1 unescaping are   *)
(* computed as the code computes them.                                     *)
(***************************************************************************)
EXTENDS Integers, Sequences, FiniteSets, TLC

VARIABLES heap, doc, cpy, pc, nmut, last, pre, csv, alias

vars == <<heap, doc, cpy, pc, nmut, last, pre, csv, alias>>

(* ----------------------------- bounds ---------------------------------- *)

\* longest pointer, in reference tokens, that the operations are called with
MaxTokens == 2

\* longest pointer, in reference tokens, that SetJPtrRecursive is called with
MaxRecursiveTokens == 3

\* number of heap cells (map and array objects) available
MaxAddr == 12

\* number of mutations applied after a Copy()
MaxMutations == 1

\* longest sequence of documents RmapsToCSV is called with
MaxRows == 2

\* a range statement over a map starts at any of its first MaxRotation + 1 keys
MaxRotation == 2

Addr == 1..MaxAddr

(* ----------------------------- strings --------------------------------- *)

\* the byte order of the characters in use (Go compares strings bytewise)
CharOrd(c) ==
  CASE c = "\"" -> 34
    [] c = "+" -> 43
    [] c = "," -> 44
    [] c = "-" -> 45
    [] c = "." -> 46
    [] c = "/" -> 47
    [] c = "0" -> 48
    [] c = "1" -> 49
    [] c = "2" -> 50
    [] c = "4" -> 52
    [] c = "a" -> 97
    [] c = "b" -> 98
    [] c = "c" -> 99
    [] c = "d" -> 100
    [] c = "e" -> 101
    [] c = "f" -> 102
    [] c = "x" -> 120
    [] c = "y" -> 121
    [] c = "~" -> 126
    [] OTHER -> 0

RECURSIVE StrLess(_, _)
StrLess(s, t) ==
  IF t = <<>> THEN FALSE
  ELSE IF s = <<>> THEN TRUE
  ELSE IF CharOrd(Head(s)) # CharOrd(Head(t)) THEN CharOrd(Head(s)) < CharOrd(Head(t))
  ELSE StrLess(Tail(s), Tail(t))

\* strings.HasPrefix
HasPrefix(s, p) == Len(s) >= Len(p) /\ SubSeq(s, 1, Len(p)) = p

\* strings.Split(s, sep) for a one-character separator: always at least one field
RECURSIVE SplitAcc(_, _, _)
SplitAcc(s, sep, cur) ==
  IF s = <<>> THEN <<cur>>
  ELSE IF Head(s) = sep THEN <<cur>> \o SplitAcc(Tail(s), sep, <<>>)
  ELSE SplitAcc(Tail(s), sep, Append(cur, Head(s)))

Split(s, sep) == SplitAcc(s, sep, <<>>)

\* strings.Join(fields, sep)
RECURSIVE Join(_, _)
Join(fields, sep) ==
  IF fields = <<>> THEN <<>>
  ELSE IF Len(fields) = 1 THEN fields[1]
  ELSE fields[1] \o <<sep>> \o Join(Tail(fields), sep)

\* strings.Replace(s, old, new, -1) for a non-empty old
RECURSIVE ReplaceAll(_, _, _)
ReplaceAll(s, old, new) ==
  IF s = <<>> THEN <<>>
  ELSE IF HasPrefix(s, old) THEN new \o ReplaceAll(SubSeq(s, Len(old) + 1, Len(s)), old, new)
  ELSE <<Head(s)>> \o ReplaceAll(Tail(s), old, new)

IsDigit(c) == c \in {"0", "1", "2", "4"}

DigitVal(c) == CharOrd(c) - 48

RECURSIVE DigitsVal(_, _)
DigitsVal(s, acc) ==
  IF s = <<>> THEN acc ELSE DigitsVal(Tail(s), 10 * acc + DigitVal(Head(s)))

\* strconv.Atoi: an optional sign and at least one decimal digit
Atoi(s) ==
  LET signed == s # <<>> /\ Head(s) \in {"+", "-"}
      digits == IF signed THEN Tail(s) ELSE s
  IN IF digits = <<>> \/ \E i \in 1..Len(digits) : ~IsDigit(digits[i])
       THEN [ok |-> FALSE, val |-> 0]
       ELSE [ok |-> TRUE,
             val |-> IF signed /\ Head(s) = "-" THEN 0 - DigitsVal(digits, 0)
                     ELSE DigitsVal(digits, 0)]

(* ------------------------------ values --------------------------------- *)
(* A Go interface{} value: its dynamic type t and, by type, a number n     *)
(* (bool as 0/1, float64 in tenths, slice length), a string s, or a        *)
(* reference ref to a heap object.                                         *)

Val(t, n, s, ref) == [t |-> t, n |-> n, s |-> s, ref |-> ref]

NilV == Val("nil", 0, <<>>, 0)
BoolV(b) == Val("bool", IF b THEN 1 ELSE 0, <<>>, 0)
\* a float64, kept in tenths: FloatV(420) is 42.0, FloatV(15) is 1.5
FloatV(tenths) == Val("float64", tenths, <<>>, 0)
IntV(i) == Val("int", i, <<>>, 0)
Int64V(i) == Val("int64", i, <<>>, 0)
StrV(s) == Val("string", 0, s, 0)
\* map[string]interface{}
MapRef(a) == Val("map", 0, <<>>, a)
\* Rmap{Mapa: the map at a}
RmapOf(a) == Val("Rmap", 0, <<>>, a)
\* []interface{} of length len over the backing array at a
Slice(a, len) == Val("[]interface{}", len, <<>>, a)
\* []Rmap and []map[string]interface{}
SliceOfRmap(a, len) == Val("[]Rmap", len, <<>>, a)
SliceOfMap(a, len) == Val("[]map[string]interface{}", len, <<>>, a)

\* struct{}{}
StructV == Val("struct{}", 0, <<>>, 0)

NoVal == Val("none", 0, <<>>, 0)

(* ------------------------------- heap ---------------------------------- *)

EmptyMap == [k \in {} |-> NilV]

Free == [kind |-> "free", m |-> EmptyMap, a |-> <<>>]
MapObj(m) == [kind |-> "map", m |-> m, a |-> <<>>]
ArrObj(a) == [kind |-> "array", m |-> EmptyMap, a |-> a]

EmptyHeap == [x \in Addr |-> Free]

FreeAddrs(h) == {x \in Addr : h[x].kind = "free"}

\* the cell a new object is put in
NewAddr(h) == CHOOSE x \in FreeAddrs(h) : \A y \in FreeAddrs(h) : x <= y

\* m[key] = v
MapPut(m, key, v) == [k \in DOMAIN m \cup {key} |-> IF k = key THEN v ELSE m[k]]

\* delete(m, key)
MapDel(m, key) == [k \in DOMAIN m \ {key} |-> m[k]]

\* a map literal from <<key, value>> pairs
MapLit(pairs) ==
  [k \in {pairs[i][1] : i \in 1..Len(pairs)} |->
     LET i == CHOOSE j \in 1..Len(pairs) : pairs[j][1] = k IN pairs[i][2]]

(* ------------------------------ errors --------------------------------- *)
(* An error is its message, a sequence of words; <<>> is the nil error.    *)
(* The code tells errors apart by the text of the message, so the text is  *)
(* kept.                                                                   *)

NoErr == <<>>

\* a run-time panic of the Go program (not an error value)
Panicked == <<"panic">>

MsgInvalidStart == <<"JSON", "pointer", "must", "be", "empty", "or", "start", "with", "a", "\"/\"">>
MsgNoKey == <<"Object", "has", "no", "key">>
MsgInvalidIndex == <<"Invalid", "array", "index">>
MsgOutOfBound == <<"Out", "of", "bound", "array", "index">>
MsgInvalidToken == <<"Invalid", "token", "reference">>

\* errors.Wrap(err, msg) / errors.Wrapf: "msg: " before the cause
Wrap(err, msg) == <<msg>> \o err

(* ---------------- github.com/xeipuuv/gojsonpointer --------------------- *)

\* NewJsonPointer: "" is the whole document, anything else starts with '/'
NewJsonPointer(jptr) ==
  IF Len(jptr) = 0 THEN [err |-> NoErr, toks |-> <<>>]
  ELSE IF jptr[1] # "/" THEN [err |-> MsgInvalidStart, toks |-> <<>>]
  ELSE [err |-> NoErr, toks |-> Split(Tail(jptr), "/")]

\* decodeReferenceToken: ~1 is '/', then ~0 is '~'
decodeReferenceToken(token) ==
  ReplaceAll(ReplaceAll(token, <<"~", "1">>, <<"/">>), <<"~", "0">>, <<"~">>)

Out(h, err, node) == [h |-> h, err |-> err, node |-> node]

\* JsonPointer.implementation: the token loop shared by Get, Set and Delete,
\* from token number ti on, with node the value reached so far
RECURSIVE implementation(_, _, _, _, _, _, _, _)
implementation(h, node, prevNode, prevTok, toks, ti, mode, setInValue) ==
  IF ti > Len(toks) THEN Out(h, NoErr, node)
  ELSE
    LET token == toks[ti]
        isLastToken == ti = Len(toks)
    IN
    IF node.t = "map" THEN
      LET m == h[node.ref].m
          decodedToken == decodeReferenceToken(token)
      IN
      IF decodedToken \in DOMAIN m THEN
        LET h2 == IF isLastToken /\ mode = "SET"
                    THEN [h EXCEPT ![node.ref].m = MapPut(m, decodedToken, setInValue)]
                  ELSE IF isLastToken /\ mode = "DEL"
                    THEN [h EXCEPT ![node.ref].m = MapDel(m, decodedToken)]
                  ELSE h
        IN implementation(h2, m[decodedToken], node, token, toks, ti + 1, mode, setInValue)
      ELSE IF isLastToken /\ mode = "SET" THEN
        implementation([h EXCEPT ![node.ref].m = MapPut(m, decodedToken, setInValue)],
                       node, node, token, toks, ti + 1, mode, setInValue)
      ELSE Out(h, MsgNoKey \o decodedToken, NilV)
    ELSE IF node.t = "[]interface{}" THEN
      LET arr == h[node.ref].a
          idx == Atoi(token)
      IN
      IF ~idx.ok THEN Out(h, MsgInvalidIndex \o token, NilV)
      ELSE IF idx.val < 0 \/ idx.val >= node.n THEN Out(h, MsgOutOfBound, NilV)
      ELSE IF isLastToken /\ mode = "SET" THEN
        implementation([h EXCEPT ![node.ref].a[idx.val + 1] = setInValue],
                       arr[idx.val + 1], node, token, toks, ti + 1, mode, setInValue)
      ELSE IF isLastToken /\ mode = "DEL" THEN
        \* v[i] = v[len-1]; v[len-1] = nil; v = v[:len-1]; the parent, taken to
        \* be a map, gets the shorter slice under the previous (raw) token
        LET moved == [arr EXCEPT ![idx.val + 1] = arr[node.n]]
            h2 == [h EXCEPT ![node.ref].a = [moved EXCEPT ![node.n] = NilV]]
        IN
        IF prevNode.t # "map" THEN Out(h2, Panicked, NilV)
        ELSE implementation(
               [h2 EXCEPT ![prevNode.ref].m =
                  MapPut(h2[prevNode.ref].m, prevTok, Slice(node.ref, node.n - 1))],
               arr[idx.val + 1], node, token, toks, ti + 1, mode, setInValue)
      ELSE implementation(h, arr[idx.val + 1], node, token, toks, ti + 1, mode, setInValue)
    ELSE Out(h, MsgInvalidToken \o token, NilV)

\* JsonPointer.Get / Set / Delete on the document (a map value)
PtrGet(h, document, toks) == implementation(h, document, NilV, <<>>, toks, 1, "GET", NilV)
PtrSet(h, document, toks, value) == implementation(h, document, NilV, <<>>, toks, 1, "SET", value)
PtrDelete(h, document, toks) == implementation(h, document, NilV, <<>>, toks, 1, "DEL", NilV)

(* ------------------------- Rmap: the navigator ------------------------- *)
(* r is the address of r.Mapa.  Each method gives the heap it leaves, the  *)
(* error and the value it returns.                                         *)

Res(h, err, ret) == [h |-> h, err |-> err, ret |-> ret]

GetJPtr(h, r, path) ==
  LET ptr == NewJsonPointer(path) IN
  IF ptr.err # NoErr THEN Res(h, Wrap(ptr.err, "jsonptr.NewJsonPointer() failed:"), NilV)
  ELSE LET g == PtrGet(h, MapRef(r), ptr.toks) IN
       IF g.err # NoErr THEN Res(h, Wrap(g.err, "ptr.Get() failed:"), NilV)
       ELSE Res(h, NoErr, g.node)

\* ExistsJPtr taking every failure of ptr.Get() for an absent path
ExistsJPtr_AnyErrorIsAbsent(h, r, path) ==
  LET ptr == NewJsonPointer(path) IN
  IF ptr.err # NoErr THEN Res(h, Wrap(ptr.err, "jsonptr.NewJsonPointer() failed:"), BoolV(FALSE))
  ELSE LET g == PtrGet(h, MapRef(r), ptr.toks) IN
       IF g.err # NoErr THEN Res(h, NoErr, BoolV(FALSE))
       ELSE Res(h, NoErr, BoolV(TRUE))

\* ExistsJPtr: false without error only for the "Object has no key" message
ExistsJPtr(h, r, path) ==
  LET ptr == NewJsonPointer(path) IN
  IF ptr.err # NoErr THEN Res(h, Wrap(ptr.err, "jsonptr.NewJsonPointer() failed:"), BoolV(FALSE))
  ELSE LET g == PtrGet(h, MapRef(r), ptr.toks) IN
       IF g.err # NoErr THEN
         IF HasPrefix(g.err, MsgNoKey) THEN Res(h, NoErr, BoolV(FALSE))
         ELSE Res(h, Wrap(g.err, "ptr.Get() failed:"), BoolV(FALSE))
       ELSE Res(h, NoErr, BoolV(TRUE))

\* SetJPtr storing an Rmap value as it is, wrapper included
SetJPtr_KeepsWrapper(h, r, path, value) ==
  LET ptr == NewJsonPointer(path) IN
  IF ptr.err # NoErr THEN Res(h, Wrap(ptr.err, "jsonptr.NewJsonPointer() failed:"), NilV)
  ELSE LET s == PtrSet(h, MapRef(r), ptr.toks, value) IN
       IF s.err # NoErr THEN Res(s.h, Wrap(s.err, "ptr.Set() failed:"), NilV)
       ELSE Res(s.h, NoErr, NilV)

\* SetJPtr dropping the error of ptr.Set()
SetJPtr_DropsError(h, r, path, value) ==
  LET ptr == NewJsonPointer(path)
      stored == IF value.t = "Rmap" THEN MapRef(value.ref) ELSE value
  IN
  IF ptr.err # NoErr THEN Res(h, Wrap(ptr.err, "jsonptr.NewJsonPointer() failed:"), NilV)
  ELSE Res(PtrSet(h, MapRef(r), ptr.toks, stored).h, NoErr, NilV)

\* SetJPtr: an Rmap value is stored as its backing map
SetJPtr(h, r, path, value) ==
  LET ptr == NewJsonPointer(path)
      stored == IF value.t = "Rmap" THEN MapRef(value.ref) ELSE value
  IN
  IF ptr.err # NoErr THEN Res(h, Wrap(ptr.err, "jsonptr.NewJsonPointer() failed:"), NilV)
  ELSE LET s == PtrSet(h, MapRef(r), ptr.toks, stored) IN
       IF s.err # NoErr THEN Res(s.h, Wrap(s.err, "ptr.Set() failed:"), NilV)
       ELSE Res(s.h, NoErr, NilV)

\* DeleteJPtr looking the path up and removing nothing
DeleteJPtr_RemovesNothing(h, r, jptr) ==
  LET ptr == NewJsonPointer(jptr) IN
  IF ptr.err # NoErr THEN Res(h, Wrap(ptr.err, "jsonptr.NewJsonPointer() failed:"), NilV)
  ELSE LET d == PtrGet(h, MapRef(r), ptr.toks) IN
       IF d.err # NoErr THEN Res(d.h, Wrap(d.err, "ptr.Delete() failed:"), NilV)
       ELSE Res(d.h, NoErr, NilV)

DeleteJPtr(h, r, jptr) ==
  LET ptr == NewJsonPointer(jptr) IN
  IF ptr.err # NoErr THEN Res(h, Wrap(ptr.err, "jsonptr.NewJsonPointer() failed:"), NilV)
  ELSE LET d == PtrDelete(h, MapRef(r), ptr.toks) IN
       IF d.err = Panicked THEN Res(d.h, Panicked, NilV)
       ELSE IF d.err # NoErr THEN Res(d.h, Wrap(d.err, "ptr.Delete() failed:"), NilV)
       ELSE Res(d.h, NoErr, NilV)

\* the loop of SetJPtrRecursive over the proper prefixes pathFields[0:pathIndex+1]
RECURSIVE ensurePrefixes(_, _, _, _)
ensurePrefixes(h, r, pathFields, pathIndex) ==
  IF pathIndex >= Len(pathFields) - 1 THEN Res(h, NoErr, NilV)
  ELSE
    LET subPathJPtr == <<"/">> \o Join(SubSeq(pathFields, 1, pathIndex + 1), "/")
        ptr == NewJsonPointer(subPathJPtr)
    IN
    IF ptr.err # NoErr THEN Res(h, ptr.err, NilV)
    ELSE
      LET g == PtrGet(h, MapRef(r), ptr.toks) IN
      IF g.err = NoErr THEN ensurePrefixes(h, r, pathFields, pathIndex + 1)
      ELSE IF ~HasPrefix(g.err, MsgNoKey) THEN Res(h, g.err, NilV)
      ELSE
        \* some part of jptr does not exist: create it as map[string]interface{}{}
        LET a == NewAddr(h)
            s == PtrSet([h EXCEPT ![a] = MapObj(EmptyMap)], MapRef(r), ptr.toks, MapRef(a))
        IN IF s.err # NoErr THEN Res(s.h, s.err, NilV)
           ELSE ensurePrefixes(s.h, r, pathFields, pathIndex + 1)

\* SetJPtrRecursive leaving the prefixes as they are
SetJPtrRecursive_CreatesNothing(h, r, jptr, value) ==
  IF Len(jptr) < 1 THEN Res(h, Panicked, NilV)
  ELSE SetJPtr(h, r, jptr, value)

\* SetJPtrRecursive: jptr[1:] is taken before the pointer is looked at, and
\* panics on the empty string
SetJPtrRecursive(h, r, jptr, value) ==
  IF Len(jptr) < 1 THEN Res(h, Panicked, NilV)
  ELSE
    LET pathFields == Split(Tail(jptr), "/")
        e == ensurePrefixes(h, r, pathFields, 0)
    IN IF e.err # NoErr THEN e ELSE SetJPtr(e.h, r, jptr, value)

(* --------------------------- encoding/json ----------------------------- *)
(* JSON text is a sequence of lexical tokens.  Marshal writes object keys  *)
(* in sorted order and every Go number as a JSON number; Unmarshal builds  *)
(* new maps and slices and reads every number as a float64.                *)

Tok(k, n, s) == [k |-> k, n |-> n, s |-> s]

RECURSIVE SortKeys(_)
SortKeys(S) ==
  IF S = {} THEN <<>>
  ELSE LET least == CHOOSE k \in S : \A o \in S : o = k \/ StrLess(k, o)
       IN <<least>> \o SortKeys(S \ {least})

RECURSIVE Marshal(_, _)
RECURSIVE MarshalMembers(_, _, _)
RECURSIVE MarshalElems(_, _, _, _)

\* an Rmap marshalled as the struct it is: {"Mapa": {...}}
MarshalJSON_Mapa(h, r) ==
  <<Tok("{", 0, <<>>), Tok("key", 0, <<"M", "a", "p", "a">>)>> \o Marshal(h, MapRef(r.ref))
    \o <<Tok("}", 0, <<>>)>>

\* Rmap.MarshalJSON: json.Marshal(r.Mapa), no "Mapa" wrapper
MarshalJSON(h, r) == Marshal(h, MapRef(r.ref))

MarshalMembers(h, m, keys) ==
  IF keys = <<>> THEN <<>>
  ELSE <<Tok("key", 0, Head(keys))>> \o Marshal(h, m[Head(keys)]) \o MarshalMembers(h, m, Tail(keys))

MarshalElems(h, arr, i, len) ==
  IF i > len THEN <<>> ELSE Marshal(h, arr[i]) \o MarshalElems(h, arr, i + 1, len)

Marshal(h, v) ==
  CASE v.t = "nil" -> <<Tok("null", 0, <<>>)>>
    [] v.t = "bool" -> <<Tok(IF v.n = 1 THEN "true" ELSE "false", 0, <<>>)>>
    [] v.t = "float64" -> <<Tok("num", v.n, <<>>)>>
    [] v.t \in {"int", "int64"} -> <<Tok("num", 10 * v.n, <<>>)>>
    [] v.t = "string" -> <<Tok("str", 0, v.s)>>
    \* a struct with no fields is the empty object
    [] v.t = "struct{}" -> <<Tok("{", 0, <<>>), Tok("}", 0, <<>>)>>
    [] v.t = "Rmap" -> MarshalJSON(h, v)
    [] v.t = "map" ->
         <<Tok("{", 0, <<>>)>> \o MarshalMembers(h, h[v.ref].m, SortKeys(DOMAIN h[v.ref].m))
           \o <<Tok("}", 0, <<>>)>>
    [] v.t \in {"[]interface{}", "[]Rmap", "[]map[string]interface{}"} ->
         <<Tok("[", 0, <<>>)>> \o MarshalElems(h, h[v.ref].a, 1, v.n) \o <<Tok("]", 0, <<>>)>>
    [] OTHER -> <<>>

\* Rmap.Bytes
Bytes(h, r) == Marshal(h, MapRef(r))

Parsed(h, v, rest) == [h |-> h, v |-> v, rest |-> rest]

RECURSIVE Unmarshal(_, _)
RECURSIVE UnmarshalMembers(_, _, _)
RECURSIVE UnmarshalElems(_, _, _)

\* the members of the object being built at a, up to its closing brace
UnmarshalMembers(h, a, toks) ==
  IF Head(toks).k = "}" THEN Parsed(h, MapRef(a), Tail(toks))
  ELSE LET p == Unmarshal(h, Tail(toks))
       IN UnmarshalMembers([p.h EXCEPT ![a].m = MapPut(p.h[a].m, Head(toks).s, p.v)], a, p.rest)

\* the elements of the array being built at a, up to its closing bracket
UnmarshalElems(h, a, toks) ==
  IF Head(toks).k = "]" THEN Parsed(h, Slice(a, Len(h[a].a)), Tail(toks))
  ELSE LET p == Unmarshal(h, toks)
       IN UnmarshalElems([p.h EXCEPT ![a].a = Append(p.h[a].a, p.v)], a, p.rest)

Unmarshal(h, toks) ==
  LET t == Head(toks) IN
  CASE t.k = "null" -> Parsed(h, NilV, Tail(toks))
    [] t.k = "true" -> Parsed(h, BoolV(TRUE), Tail(toks))
    [] t.k = "false" -> Parsed(h, BoolV(FALSE), Tail(toks))
    [] t.k = "num" -> Parsed(h, FloatV(t.n), Tail(toks))
    [] t.k = "str" -> Parsed(h, StrV(t.s), Tail(toks))
    [] t.k = "{" -> LET a == NewAddr(h)
                    IN UnmarshalMembers([h EXCEPT ![a] = MapObj(EmptyMap)], a, Tail(toks))
    [] t.k = "[" -> LET a == NewAddr(h)
                    IN UnmarshalElems([h EXCEPT ![a] = ArrObj(<<>>)], a, Tail(toks))

\* NewFromBytes: json.Unmarshal into a new map[string]interface{}
NewFromBytes(h, bytes) ==
  LET p == Unmarshal(h, bytes) IN Res(p.h, NoErr, RmapOf(p.v.ref))

\* NewFromMap: Rmap{mapa}, a Document over the mapping itself
NewFromMap(mapa) == RmapOf(mapa)

\* Copy making a new top-level map over the same nested values
Copy_SharesNested(h, r) ==
  LET a == NewAddr(h) IN Res([h EXCEPT ![a] = MapObj(h[r].m)], NoErr, RmapOf(a))

\* Copy: NewFromBytes(r.Bytes())
Copy(h, r) == NewFromBytes(h, Bytes(h, r))

\* the number of maps and slices Unmarshal builds for a text
Containers(bytes) == Cardinality({i \in 1..Len(bytes) : bytes[i].k \in {"{", "["}})

(* ------------------------- Rmap: typed getters ------------------------- *)

MsgNoSuchKey == <<"key", "does", "not", "exist", "in", "object">>
\* errInvalidKeyType and errInvalidJPtrType, with the expected type
MsgKeyType(T) == <<"key", "is", "not", "of", "type", T>>
MsgJPtrType(T) == <<"JSONPointer", "is", "not", "of", "type", T>>
\* the message of GetJPtrString, GetJPtrBool and GetJPtrInt
MsgJPtrPath(T) == <<"JSONPointer", "path", "is", "not", "a", T>>

\* Go's int(f) for a float64 kept in tenths: the fraction is dropped
FloatToInt(tenths) == IF tenths >= 0 THEN tenths \div 10 ELSE 0 - ((0 - tenths) \div 10)

\* Get: the value under a top-level key
Get(h, r, key) ==
  IF key \in DOMAIN h[r].m THEN Res(h, NoErr, h[r].m[key])
  ELSE Res(h, MsgNoSuchKey, NilV)

\* interfaceToIterable with the []interface{} case only
interfaceToIterable_OnlyArrays(h, valI, errmsg) ==
  IF valI.t = "[]interface{}" THEN Res(h, NoErr, valI)
  ELSE Res(h, errmsg, Slice(0, 0))

\* the type switch of interfaceToIterable: []interface{} as it is, a typed
\* slice appended element by element to a nil []interface{}
interfaceToIterable(h, valI, errmsg) ==
  IF valI.t = "[]interface{}" THEN Res(h, NoErr, valI)
  ELSE IF valI.t \in {"[]Rmap", "[]map[string]interface{}"} THEN
    IF valI.n = 0 THEN Res(h, NoErr, Slice(0, 0))
    ELSE LET a == NewAddr(h)
         IN Res([h EXCEPT ![a] = ArrObj(SubSeq(h[valI.ref].a, 1, valI.n))], NoErr, Slice(a, valI.n))
  ELSE Res(h, errmsg, Slice(0, 0))

GetString(h, r, key) ==
  LET g == Get(h, r, key) IN
  IF g.err # NoErr THEN Res(h, Wrap(g.err, "r.Get() failed:"), StrV(<<>>))
  ELSE IF g.ret.t = "string" THEN Res(h, NoErr, g.ret)
  ELSE Res(h, MsgKeyType("STRING"), StrV(<<>>))

GetBool(h, r, key) ==
  LET g == Get(h, r, key) IN
  IF g.err # NoErr THEN Res(h, Wrap(g.err, "r.Get() failed:"), BoolV(FALSE))
  ELSE IF g.ret.t = "bool" THEN Res(h, NoErr, g.ret)
  ELSE Res(h, MsgKeyType("BOOLEAN"), BoolV(FALSE))

GetFloat64(h, r, key) ==
  LET g == Get(h, r, key) IN
  IF g.err # NoErr THEN Res(h, Wrap(g.err, "r.Get() failed:"), FloatV(0 - 10))
  ELSE IF g.ret.t = "float64" THEN Res(h, NoErr, g.ret)
  ELSE Res(h, MsgKeyType("FLOAT64"), FloatV(0 - 10))

\* GetInt: float64, int64 and int are accepted
GetInt(h, r, key) ==
  LET g == Get(h, r, key) IN
  IF g.err # NoErr THEN Res(h, Wrap(g.err, "r.Get() failed:"), IntV(0 - 1))
  ELSE IF g.ret.t = "float64" THEN Res(h, NoErr, IntV(FloatToInt(g.ret.n)))
  ELSE IF g.ret.t = "int64" THEN Res(h, NoErr, IntV(g.ret.n))
  ELSE IF g.ret.t = "int" THEN Res(h, NoErr, g.ret)
  ELSE Res(h, MsgKeyType("INT or FLOAT64"), IntV(0 - 1))

\* GetRmap handing out a copy of the nested mapping
GetRmap_Copies(h, r, key) ==
  LET g == Get(h, r, key) IN
  IF g.err # NoErr THEN Res(h, Wrap(g.err, "r.Get() failed:"), RmapOf(0))
  ELSE IF g.ret.t \in {"map", "Rmap"} THEN Copy(h, g.ret.ref)
  ELSE Res(h, MsgKeyType("OBJECT"), RmapOf(0))

GetRmap(h, r, key) ==
  LET g == Get(h, r, key) IN
  IF g.err # NoErr THEN Res(h, Wrap(g.err, "r.Get() failed:"), RmapOf(0))
  ELSE IF g.ret.t = "map" THEN Res(h, NoErr, RmapOf(g.ret.ref))
  ELSE IF g.ret.t = "Rmap" THEN Res(h, NoErr, g.ret)
  ELSE Res(h, MsgKeyType("OBJECT"), RmapOf(0))

GetIterable(h, r, key) ==
  LET g == Get(h, r, key) IN
  IF g.err # NoErr THEN Res(h, Wrap(g.err, "r.Get() failed:"), Slice(0, 0))
  ELSE interfaceToIterable(h, g.ret, MsgKeyType("ARRAY"))

GetJPtrString(h, r, path) ==
  LET g == GetJPtr(h, r, path) IN
  IF g.err # NoErr THEN Res(h, Wrap(g.err, "r.GetJPtr() failed:"), StrV(<<>>))
  ELSE IF g.ret.t = "string" THEN Res(h, NoErr, g.ret)
  ELSE Res(h, MsgJPtrPath("STRING"), StrV(<<>>))

GetJPtrBool(h, r, path) ==
  LET g == GetJPtr(h, r, path) IN
  IF g.err # NoErr THEN Res(h, Wrap(g.err, "r.GetJPtr() failed:"), BoolV(FALSE))
  ELSE IF g.ret.t = "bool" THEN Res(h, NoErr, g.ret)
  ELSE Res(h, MsgJPtrPath("BOOLEAN"), BoolV(FALSE))

GetJPtrFloat64(h, r, jptr) ==
  LET g == GetJPtr(h, r, jptr) IN
  IF g.err # NoErr THEN Res(h, Wrap(g.err, "r.GetJPtr() failed:"), FloatV(0 - 10))
  ELSE IF g.ret.t = "float64" THEN Res(h, NoErr, g.ret)
  ELSE Res(h, MsgJPtrType("FLOAT64"), FloatV(0 - 10))

\* GetJPtrInt: float64 and int are accepted
GetJPtrInt(h, r, path) ==
  LET g == GetJPtr(h, r, path) IN
  IF g.err # NoErr THEN Res(h, Wrap(g.err, "r.GetJPtr() failed:"), IntV(0 - 1))
  ELSE IF g.ret.t = "float64" THEN Res(h, NoErr, IntV(FloatToInt(g.ret.n)))
  ELSE IF g.ret.t = "int" THEN Res(h, NoErr, g.ret)
  ELSE Res(h, MsgJPtrPath("INT or FLOAT64"), IntV(0 - 1))

GetJPtrRmap(h, r, path) ==
  LET g == GetJPtr(h, r, path) IN
  IF g.err # NoErr THEN Res(h, Wrap(g.err, "r.GetJPtr() failed:"), RmapOf(0))
  ELSE IF g.ret.t = "map" THEN Res(h, NoErr, RmapOf(g.ret.ref))
  ELSE IF g.ret.t = "Rmap" THEN Res(h, NoErr, g.ret)
  ELSE Res(h, MsgJPtrType("OBJECT"), RmapOf(0))

\* GetJPtrIterable: only []interface{} is accepted
GetJPtrIterable(h, r, path) ==
  LET g == GetJPtr(h, r, path) IN
  IF g.err # NoErr THEN Res(h, Wrap(g.err, "r.GetJPtr() failed:"), Slice(0, 0))
  ELSE IF g.ret.t = "[]interface{}" THEN Res(h, NoErr, g.ret)
  ELSE Res(h, MsgJPtrType("ARRAY"), Slice(0, 0))

GetIterableJPtr(h, r, jptr) ==
  LET g == GetJPtr(h, r, jptr) IN
  IF g.err # NoErr THEN Res(h, g.err, Slice(0, 0))
  ELSE interfaceToIterable(h, g.ret, MsgKeyType("ARRAY"))

\* the extraction types and, for each, the getter by key and the getter by pointer
Types == {"String", "Bool", "Int", "Float64", "Rmap", "Iterable"}

ByKey(T, h, r, key) ==
  CASE T = "String" -> GetString(h, r, key)
    [] T = "Bool" -> GetBool(h, r, key)
    [] T = "Int" -> GetInt(h, r, key)
    [] T = "Float64" -> GetFloat64(h, r, key)
    [] T = "Rmap" -> GetRmap(h, r, key)
    [] T = "Iterable" -> GetIterable(h, r, key)

ByPath(T, h, r, path) ==
  CASE T = "String" -> GetJPtrString(h, r, path)
    [] T = "Bool" -> GetJPtrBool(h, r, path)
    [] T = "Int" -> GetJPtrInt(h, r, path)
    [] T = "Float64" -> GetJPtrFloat64(h, r, path)
    [] T = "Rmap" -> GetJPtrRmap(h, r, path)
    [] T = "Iterable" -> GetIterableJPtr(h, r, path)

PathTypes == Types \cup {"JPtrIterable"}

ByPathAll(T, h, r, path) ==
  IF T = "JPtrIterable" THEN GetJPtrIterable(h, r, path) ELSE ByPath(T, h, r, path)

(* ------------------------------- csv.go -------------------------------- *)
(* Text is a sequence of characters.  The header map and every row are Go  *)
(* maps in the heap, as the documents are.                                 *)

\* the order a range statement visits the keys of a map in: Go leaves it
\* open.  The orders taken here are the sorted keys, forwards or backwards,
\* started at any of the first MaxRotation + 1 of them.
Orders == [rev : BOOLEAN, rot : 0..MaxRotation]

Reverse(s) == [i \in 1..Len(s) |-> s[Len(s) + 1 - i]]

Rotate(s, k) == [i \in 1..Len(s) |-> s[((i - 1 + k) % Len(s)) + 1]]

Range(m, ord) ==
  LET keys == SortKeys(DOMAIN m)
  IN Rotate(IF ord.rev THEN Reverse(keys) ELSE keys, ord.rot)

\* strings.Index(s, substr) for a non-empty substr
Index(s, substr) ==
  LET at == {i \in 1..Len(s) : HasPrefix(SubSeq(s, i, Len(s)), substr)}
  IN IF at = {} THEN 0 - 1 ELSE (CHOOSE i \in at : \A j \in at : i <= j) - 1

\* strconv.Itoa
Digits == <<"0", "1", "2", "3", "4", "5", "6", "7", "8", "9">>

RECURSIVE Itoa(_)
Itoa(i) ==
  IF i < 0 THEN <<"-">> \o Itoa(0 - i)
  ELSE IF i < 10 THEN <<Digits[i + 1]>>
  ELSE Itoa(i \div 10) \o <<Digits[(i % 10) + 1]>>

\* a float64 under %v: the shortest decimal that gives the number back, with
\* no fraction when it is whole (the numbers here are far below 1e21)
FormatFloat(tenths) ==
  IF tenths < 0 THEN <<"-">> \o Itoa((0 - tenths) \div 10)
                       \o (IF (0 - tenths) % 10 = 0 THEN <<>> ELSE <<".", Digits[((0 - tenths) % 10) + 1]>>)
  ELSE Itoa(tenths \div 10) \o (IF tenths % 10 = 0 THEN <<>> ELSE <<".", Digits[(tenths % 10) + 1]>>)

\* fmt.Sprintf("%v", v): a slice as [e1 e2], a map as map[k1:v1 k2:v2] with
\* its keys sorted, nil as <nil>.  A document in a slice would print through
\* its String() method; no slice here holds one.
RECURSIVE Sprintf(_, _)
RECURSIVE SprintfElems(_, _, _, _)
RECURSIVE SprintfMembers(_, _, _)

SprintfElems(h, arr, i, len) ==
  IF i > len THEN <<>>
  ELSE (IF i > 1 THEN <<" ">> ELSE <<>>) \o Sprintf(h, arr[i]) \o SprintfElems(h, arr, i + 1, len)

SprintfMembers(h, m, keys) ==
  IF keys = <<>> THEN <<>>
  ELSE Head(keys) \o <<":">> \o Sprintf(h, m[Head(keys)])
         \o (IF Len(keys) > 1 THEN <<" ">> ELSE <<>>) \o SprintfMembers(h, m, Tail(keys))

Sprintf(h, v) ==
  CASE v.t = "string" -> v.s
    [] v.t = "float64" -> FormatFloat(v.n)
    [] v.t \in {"int", "int64"} -> Itoa(v.n)
    [] v.t = "bool" -> IF v.n = 1 THEN <<"t", "r", "u", "e">> ELSE <<"f", "a", "l", "s", "e">>
    [] v.t = "nil" -> <<"<", "n", "i", "l", ">">>
    [] v.t = "struct{}" -> <<"{", "}">>
    [] v.t = "map" ->
         <<"m", "a", "p", "[">> \o SprintfMembers(h, h[v.ref].m, SortKeys(DOMAIN h[v.ref].m)) \o <<"]">>
    [] v.t \in {"[]interface{}", "[]map[string]interface{}"} ->
         <<"[">> \o SprintfElems(h, h[v.ref].a, 1, v.n) \o <<"]">>

MsgUnexpectedKey(key) == <<"unexpected", "key">> \o key \o <<"not", "found", "in", "header">>

\* collectKeys: the loop over the keys ks still to visit, then the function
RECURSIVE collectKeys(_, _, _, _, _)
RECURSIVE collectKeysOver(_, _, _, _, _, _)
RECURSIVE collectKeysOver_RmapIsLeaf(_, _, _, _, _, _)

\* the loop of collectKeys taking a wrapped document for a leaf
collectKeysOver_RmapIsLeaf(h, input, ks, path, keys, ord) ==
  IF ks = <<>> THEN h
  ELSE
    LET k == Head(ks)
        v == h[input].m[k]
        done == IF v.t = "map"
                THEN collectKeys(h, v.ref, Append(path, k), keys, ord)
                ELSE [h EXCEPT ![keys].m = MapPut(@, Join(Append(path, k), "."), StructV)]
    IN collectKeysOver_RmapIsLeaf(done, input, Tail(ks), path, keys, ord)

collectKeysOver(h, input, ks, path, keys, ord) ==
  IF ks = <<>> THEN h
  ELSE
    LET k == Head(ks)
        v == h[input].m[k]
        done == IF v.t \in {"Rmap", "map"}
                THEN collectKeys(h, v.ref, Append(path, k), keys, ord)
                ELSE [h EXCEPT ![keys].m = MapPut(@, Join(Append(path, k), "."), StructV)]
    IN collectKeysOver(done, input, Tail(ks), path, keys, ord)

collectKeys(h, input, path, keys, ord) ==
  collectKeysOver(h, input, Range(h[input].m, ord), path, keys, ord)

\* KeysSliceString: the keys as a range statement gives them
KeysSliceString(h, r, ord) == Range(h[r].m, ord)

\* the keys left in the order KeysSliceString gave them
SortStrings_AsGiven(keys) == keys

\* sort.Strings on a slice with no string twice
SortStrings(keys) == SortKeys({keys[i] : i \in 1..Len(keys)})

writeHeader(keys, separator) == Join(keys, separator)

\* processValue filling the row without looking the key up in it
processValue_AcceptsAnyKey(h, value, path, row) ==
  LET key == Join(path, ".")
      stored == CASE value.t = "string" -> StrV(ReplaceAll(value.s, <<"\n">>, <<>>))
                  [] value.t = "float64" -> value
                  [] value.t = "int" -> value
                  [] OTHER -> StrV(Sprintf(h, value))
  IN Res([h EXCEPT ![row].m = MapPut(@, key, stored)], NoErr, NilV)

processValue(h, value, path, row) ==
  LET key == Join(path, ".") IN
  IF key \notin DOMAIN h[row].m THEN Res(h, MsgUnexpectedKey(key), NilV)
  ELSE
    LET stored == CASE value.t = "string" -> StrV(ReplaceAll(value.s, <<"\n">>, <<>>))
                    [] value.t = "float64" -> value
                    [] value.t = "int" -> value
                    [] OTHER -> StrV(Sprintf(h, value))
    IN Res([h EXCEPT ![row].m = MapPut(@, key, stored)], NoErr, NilV)

\* collectValues: the loop over the keys ks still to visit, then the function
RECURSIVE collectValues(_, _, _, _, _)
RECURSIVE collectValuesOver(_, _, _, _, _, _)

collectValuesOver(h, input, ks, path, row, ord) ==
  IF ks = <<>> THEN Res(h, NoErr, NilV)
  ELSE
    LET k == Head(ks)
        v == h[input].m[k]
        done == IF v.t \in {"Rmap", "map"}
                THEN collectValues(h, v.ref, Append(path, k), row, ord)
                ELSE processValue(h, v, Append(path, k), row)
    IN IF done.err # NoErr THEN done
       ELSE collectValuesOver(done.h, input, Tail(ks), path, row, ord)

\* collectValues storing every leaf in the document it visits
collectValues_InPlace(h, input, path, row, ord) ==
  collectValuesOver(h, input, Range(h[input].m, ord), path, input, ord)

collectValues(h, input, path, row, ord) ==
  collectValuesOver(h, input, Range(h[input].m, ord), path, row, ord)

\* the field written as formatted, never in quotes
RowField_NeverQuotes(h, val, separator) == Sprintf(h, val)

\* one field of a row: rowData[idx]
RowField(h, val, separator) ==
  IF val.t = "string" /\ Index(val.s, <<separator>>) # 0 - 1
  THEN <<"\"">> \o ReplaceAll(val.s, <<"\"">>, <<>>) \o <<"\"">>
  ELSE Sprintf(h, val)

RECURSIVE writeValuesOver(_, _, _, _, _)
writeValuesOver(h, input, headerKeys, separator, rowData) ==
  IF headerKeys = <<>> THEN Res(h, NoErr, StrV(Join(rowData, separator)))
  ELSE LET g == Get(h, input, Head(headerKeys)) IN
       IF g.err # NoErr THEN Res(h, g.err, NilV)
       ELSE writeValuesOver(h, input, Tail(headerKeys), separator,
                            Append(rowData, RowField(h, g.ret, separator)))

writeValues(h, input, headerKeys, separator) ==
  writeValuesOver(h, input, headerKeys, separator, <<>>)

\* row := NewFromMap(header): the row is the header map itself
NewRow_SharesHeader(h, header) == Res(h, NoErr, RmapOf(header))

\* row := NewFromMap(header).Copy() giving an empty map
NewRow_Empty(h, header) ==
  LET a == NewAddr(h) IN Res([h EXCEPT ![a] = MapObj(EmptyMap)], NoErr, RmapOf(a))

\* row := NewFromMap(header).Copy()
NewRow(h, header) == Copy(h, header)

\* cells no variable of the program refers to any more are given back
Release(h, cells) == [x \in Addr |-> IF x \in cells THEN Free ELSE h[x]]

(* ------------------------- Rmap: Must variants ------------------------- *)
(* Every Must variant calls its operation and panics with the error it got *)
(* back; a panic inside the operation passes through it.  An aborted call  *)
(* is an error that starts with "panic", followed by the panic's value.    *)

Aborted(err) == err # NoErr /\ Head(err) = "panic"

\* if err != nil { panic(err) }; return val
Must(res) ==
  IF res.err = NoErr \/ Aborted(res.err) THEN res
  ELSE Res(res.h, Panicked \o res.err, NoVal)

\* the operations that have a Must variant: MustGetJPtr, MustExistsJPtr,
\* MustSetJPtr, MustSetJPtrRecursive and MustDeleteJPtr
MustOps == {"GetJPtr", "ExistsJPtr", "SetJPtr", "SetJPtrRecursive", "DeleteJPtr"}

Fallible(op, h, r, path, value) ==
  CASE op = "GetJPtr" -> GetJPtr(h, r, path)
    [] op = "ExistsJPtr" -> ExistsJPtr(h, r, path)
    [] op = "SetJPtr" -> SetJPtr(h, r, path, value)
    [] op = "SetJPtrRecursive" -> SetJPtrRecursive(h, r, path, value)
    [] op = "DeleteJPtr" -> DeleteJPtr(h, r, path)

MustOf(op, h, r, path, value) == Must(Fallible(op, h, r, path, value))

\* MustGetString, MustGetBool, MustGetInt, MustGetFloat64, MustGetRmap, MustGetIterable
MustByKey(T, h, r, key) == Must(ByKey(T, h, r, key))

\* MustGetJPtrString, MustGetJPtrBool, MustGetJPtrInt, MustGetJPtrFloat64,
\* MustGetJPtrRmap, MustGetIterableJPtr and MustGetJPtrIterable
MustByPathAll(T, h, r, path) == Must(ByPathAll(T, h, r, path))

(* --------------------------- the documents ----------------------------- *)
(* Documents as a caller builds them with NewFromMap: the root map is at   *)
(* address 1, nested maps and backing arrays follow.                       *)

HeapLit(objs) == [x \in Addr |-> IF x <= Len(objs) THEN objs[x] ELSE Free]

InitHeaps ==
  { \* {}
    HeapLit(<<MapObj(EmptyMap)>>),
    \* {"a": "x", "b": 42.0}
    HeapLit(<<MapObj(MapLit(<< <<(<<"a">>), StrV(<<"x">>)>>, <<(<<"b">>), FloatV(420)>> >>))>>),
    \* {"a": {"b": "x"}}
    HeapLit(<<MapObj(MapLit(<< <<(<<"a">>), MapRef(2)>> >>)),
              MapObj(MapLit(<< <<(<<"b">>), StrV(<<"x">>)>> >>))>>),
    \* {"a": [{"b": "x"}]}
    HeapLit(<<MapObj(MapLit(<< <<(<<"a">>), Slice(2, 1)>> >>)),
              ArrObj(<<MapRef(3)>>),
              MapObj(MapLit(<< <<(<<"b">>), StrV(<<"x">>)>> >>))>>),
    \* {"a": ["x", 1.5], "b": []}
    HeapLit(<<MapObj(MapLit(<< <<(<<"a">>), Slice(2, 2)>>, <<(<<"b">>), Slice(3, 0)>> >>)),
              ArrObj(<<StrV(<<"x">>), FloatV(15)>>),
              ArrObj(<<>>)>>),
    \* {"a": Rmap{"b": "x"}}: a wrapped document as a nested value
    HeapLit(<<MapObj(MapLit(<< <<(<<"a">>), RmapOf(2)>> >>)),
              MapObj(MapLit(<< <<(<<"b">>), StrV(<<"x">>)>> >>))>>),
    \* {"a": nil, "b": true}
    HeapLit(<<MapObj(MapLit(<< <<(<<"a">>), NilV>>, <<(<<"b">>), BoolV(TRUE)>> >>))>>),
    \* {"a": int(7), "b": int64(7)}
    HeapLit(<<MapObj(MapLit(<< <<(<<"a">>), IntV(7)>>, <<(<<"b">>), Int64V(7)>> >>))>>),
    \* {"a": "42", "b": 1.5}
    HeapLit(<<MapObj(MapLit(<< <<(<<"a">>), StrV(<<"4", "2">>)>>, <<(<<"b">>), FloatV(15)>> >>))>>),
    \* {"a": [["x"]]}
    HeapLit(<<MapObj(MapLit(<< <<(<<"a">>), Slice(2, 1)>> >>)),
              ArrObj(<<Slice(3, 1)>>),
              ArrObj(<<StrV(<<"x">>)>>)>>),
    \* {"a": {"b": {"a": 42.0}}}
    HeapLit(<<MapObj(MapLit(<< <<(<<"a">>), MapRef(2)>> >>)),
              MapObj(MapLit(<< <<(<<"b">>), MapRef(3)>> >>)),
              MapObj(MapLit(<< <<(<<"a">>), FloatV(420)>> >>))>>),
    \* {"a": []Rmap{{"b": "x"}}, "b": []map[string]interface{}{{"b": "x"}}}
    HeapLit(<<MapObj(MapLit(<< <<(<<"a">>), SliceOfRmap(2, 1)>>, <<(<<"b">>), SliceOfMap(3, 1)>> >>)),
              ArrObj(<<RmapOf(4)>>),
              ArrObj(<<MapRef(4)>>),
              MapObj(MapLit(<< <<(<<"b">>), StrV(<<"x">>)>> >>))>>),
    \* {"/": "x", "~1": 42.0, "0": true, "": "y"}
    HeapLit(<<MapObj(MapLit(<< <<(<<"/">>), StrV(<<"x">>)>>, <<(<<"~", "1">>), FloatV(420)>>,
                               <<(<<"0">>), BoolV(TRUE)>>, <<(<<>>), StrV(<<"y">>)>> >>))>>)
  }

\* the documents RmapsToCSV is called with: a heap and the documents in it
CsvInputs ==
  { \* {"a": {"c": 1.5}, "b": "v1"}, {"b": "v2"}, {"a": {}, "b": true}, {"b": "x", "d": nil}
    [docs |-> {1, 3, 4, 6},
     h |-> HeapLit(<<MapObj(MapLit(<< <<(<<"a">>), MapRef(2)>>, <<(<<"b">>), StrV(<<"v", "1">>)>> >>)),
                     MapObj(MapLit(<< <<(<<"c">>), FloatV(15)>> >>)),
                     MapObj(MapLit(<< <<(<<"b">>), StrV(<<"v", "2">>)>> >>)),
                     MapObj(MapLit(<< <<(<<"a">>), MapRef(5)>>, <<(<<"b">>), BoolV(TRUE)>> >>)),
                     MapObj(EmptyMap),
                     MapObj(MapLit(<< <<(<<"b">>), StrV(<<"x">>)>>, <<(<<"d">>), NilV>> >>))>>)],
    \* {"a": "x,\"y", "b": int64(7), "c": ["x\ny", 1.5]}, {"a": "x.\ny", "b": int(7), "c": nil},
    \* {"a": 1.5, "b": 42.0, "c": false}
    [docs |-> {1, 3, 4},
     h |-> HeapLit(<<MapObj(MapLit(<< <<(<<"a">>), StrV(<<"x", ",", "\"", "y">>)>>,
                                      <<(<<"b">>), Int64V(7)>>, <<(<<"c">>), Slice(2, 2)>> >>)),
                     ArrObj(<<StrV(<<"x", "\n", "y">>), FloatV(15)>>),
                     MapObj(MapLit(<< <<(<<"a">>), StrV(<<"x", ".", "\n", "y">>)>>,
                                      <<(<<"b">>), IntV(7)>>, <<(<<"c">>), NilV>> >>)),
                     MapObj(MapLit(<< <<(<<"a">>), FloatV(15)>>, <<(<<"b">>), FloatV(420)>>,
                                      <<(<<"c">>), BoolV(FALSE)>> >>))>>)],
    \* {"a": Rmap{"b": "x"}, "e": [{"f": 1.5}]}, {"a": {"b": "z"}, "a.b": "y"}
    [docs |-> {1, 5},
     h |-> HeapLit(<<MapObj(MapLit(<< <<(<<"a">>), RmapOf(2)>>, <<(<<"e">>), Slice(3, 1)>> >>)),
                     MapObj(MapLit(<< <<(<<"b">>), StrV(<<"x">>)>> >>)),
                     ArrObj(<<MapRef(4)>>),
                     MapObj(MapLit(<< <<(<<"f">>), FloatV(15)>> >>)),
                     MapObj(MapLit(<< <<(<<"a">>), MapRef(6)>>, <<(<<"a", ".", "b">>), StrV(<<"y">>)>> >>)),
                     MapObj(MapLit(<< <<(<<"b">>), StrV(<<"z">>)>> >>))>>)]
  }

(* ----------------------------- the inputs ------------------------------ *)

Tokens == {<<"a">>, <<"b">>, <<"0">>, <<"1">>, <<"~", "1">>}

TokenSeqs(S, n) == UNION {[1..k -> S] : k \in 0..n}

\* the pointer string of a token sequence, with or without the leading '/'
Render(lead, toks) == (IF lead THEN <<"/">> ELSE <<>>) \o Join(toks, "/")

\* pointer strings: well-formed ones, the empty string, and ones with no leading '/'
Paths == {Render(lead, ts) : lead \in BOOLEAN, ts \in TokenSeqs(Tokens, MaxTokens)}

\* top-level keys asked for
Keys == Tokens \cup {<<"/">>, <<>>}

\* the values handed to the setters, each built new for the call
ValueKinds == {"nil", "string", "float64", "map", "Rmap", "slice"}

\* the caller building the value: the heap with it, and the value
BuildValue(h, kind) ==
  LET a == NewAddr(h)
      m == MapObj(MapLit(<< <<(<<"b">>), StrV(<<"y">>)>> >>))
  IN CASE kind = "nil" -> [h |-> h, v |-> NilV]
       [] kind = "string" -> [h |-> h, v |-> StrV(<<"y">>)]
       [] kind = "float64" -> [h |-> h, v |-> FloatV(420)]
       [] kind = "map" -> [h |-> [h EXCEPT ![a] = m], v |-> MapRef(a)]
       [] kind = "Rmap" -> [h |-> [h EXCEPT ![a] = m], v |-> RmapOf(a)]
       [] kind = "slice" -> [h |-> [h EXCEPT ![a] = ArrObj(<<StrV(<<"y">>)>>)], v |-> Slice(a, 1)]

\* the inputs of SetJPtrRecursive: longer paths over fewer tokens
RecursivePaths ==
  {Render(lead, ts) : lead \in BOOLEAN, ts \in TokenSeqs(Tokens \ {<<"1">>}, MaxRecursiveTokens)}
RecursiveValueKinds == {"string", "map", "Rmap"}

\* the inputs of the mutations that follow a Copy(): top-level and nested
\* keys and array elements
CopyPaths ==
  {<<"/", "a">>, <<"/", "b">>, <<"/", "a", "/", "b">>, <<"/", "a", "/", "0">>,
   <<"/", "a", "/", "0", "/", "b">>}
CopyValueKinds == {"map"}

\* the inputs of the Must variants: the empty string, a string with no
\* leading '/', keys and elements that exist and ones that do not
MustPaths ==
  {<<>>, <<"a">>, <<"/", "a">>, <<"/", "b">>, <<"/", "a", "/", "b">>, <<"/", "a", "/", "0">>,
   <<"/", "a", "/", "0", "/", "0">>}
MustKeys == {<<"a">>, <<"b">>, <<"0">>}
MustValueKinds == {"string", "Rmap"}

(* --------------------------- the state machine ------------------------- *)
(* heap: the Go heap; doc: the address of D.Mapa; cpy: the address of      *)
(* C.Mapa once C = D.Copy() was taken (0 before); last: the last call, its *)
(* arguments and what it returned; pre: the heap as that call found it.    *)

\* the sequences of documents and the separators RmapsToCSV is called with
RmapSeqs(docs) == UNION {[1..n -> docs] : n \in 0..MaxRows}
Separators == {",", "."}

Call(op, tgt, path, key, T, arg, err, ret) ==
  [op |-> op, tgt |-> tgt, path |-> path, key |-> key, T |-> T, arg |-> arg,
   err |-> err, ret |-> ret]

NoCall == Call("none", "D", <<>>, <<>>, "", NoVal, NoErr, NoVal)

\* no second Document over storage of D yet
NoAlias == [ref |-> 0, at |-> <<>>]

Root(tgt) == CASE tgt = "D" -> doc [] tgt = "C" -> cpy [] tgt = "E" -> alias.ref

\* no call of RmapsToCSV yet
NoCsv ==
  [docs |-> {}, rmaps |-> <<>>, separator |-> ",", header |-> 0, headerKeys |-> <<>>,
   row |-> 0, cells |-> {}, i |-> 0, output |-> <<>>, err |-> NoErr, ret |-> NoVal]

HasCells(n) == Cardinality(FreeAddrs(heap)) >= n

Init ==
  /\ heap \in InitHeaps
  /\ doc = 1
  /\ cpy = 0
  /\ pc = "ready"
  /\ nmut = 0
  /\ last = NoCall
  /\ pre = heap
  /\ csv = NoCsv
  /\ alias = NoAlias

\* r.SetJPtr(path, value) on document tgt, the value built for the call
DoSetJPtr(tgt, path, kind) ==
  /\ HasCells(1)
  /\ \E b \in {BuildValue(heap, kind)} :
       \E res \in {SetJPtr(b.h, Root(tgt), path, b.v)} :
         /\ heap' = res.h
         /\ pre' = b.h
         /\ last' = Call("SetJPtr", tgt, path, <<>>, "", b.v, res.err, res.ret)
  /\ UNCHANGED <<doc, cpy, csv, alias>>

DoSetJPtrRecursive(tgt, path, kind) ==
  /\ HasCells(Len(path) + 1)
  /\ \E b \in {BuildValue(heap, kind)} :
       \E res \in {SetJPtrRecursive(b.h, Root(tgt), path, b.v)} :
         /\ heap' = res.h
         /\ pre' = b.h
         /\ last' = Call("SetJPtrRecursive", tgt, path, <<>>, "", b.v, res.err, res.ret)
  /\ UNCHANGED <<doc, cpy, csv, alias>>

DoDeleteJPtr(tgt, path) ==
  /\ \E res \in {DeleteJPtr(heap, Root(tgt), path)} :
       /\ heap' = res.h
       /\ pre' = heap
       /\ last' = Call("DeleteJPtr", tgt, path, <<>>, "", NoVal, res.err, res.ret)
  /\ UNCHANGED <<doc, cpy, csv, alias>>

CallSetJPtr ==
  /\ pc = "ready" /\ pc' = "done" /\ nmut' = nmut
  /\ \E path \in Paths, kind \in ValueKinds : DoSetJPtr("D", path, kind)

CallSetJPtrRecursive ==
  /\ pc = "ready" /\ pc' = "done" /\ nmut' = nmut
  /\ \E path \in RecursivePaths, kind \in RecursiveValueKinds :
       DoSetJPtrRecursive("D", path, kind)

CallDeleteJPtr ==
  /\ pc = "ready" /\ pc' = "done" /\ nmut' = nmut
  /\ \E path \in Paths : DoDeleteJPtr("D", path)

\* after C = D.Copy(): one more mutation of D or of C
AfterCopy == pc = "copied" /\ nmut < MaxMutations /\ pc' = "copied" /\ nmut' = nmut + 1

SetJPtrAfterCopy ==
  /\ AfterCopy
  /\ \E tgt \in {"D", "C"}, path \in CopyPaths, kind \in CopyValueKinds : DoSetJPtr(tgt, path, kind)

SetJPtrRecursiveAfterCopy ==
  /\ AfterCopy
  /\ \E tgt \in {"D", "C"}, path \in CopyPaths, kind \in CopyValueKinds :
       DoSetJPtrRecursive(tgt, path, kind)

DeleteJPtrAfterCopy ==
  /\ AfterCopy
  /\ \E tgt \in {"D", "C"}, path \in CopyPaths : DoDeleteJPtr(tgt, path)

CallGetJPtr ==
  \E path \in Paths :
    /\ pc = "ready" /\ pc' = "done"
    /\ \E res \in {GetJPtr(heap, doc, path)} :
         last' = Call("GetJPtr", "D", path, <<>>, "", NoVal, res.err, res.ret)
    /\ pre' = heap
    /\ UNCHANGED <<heap, doc, cpy, nmut, csv, alias>>

CallExistsJPtr ==
  \E path \in Paths :
    /\ pc = "ready" /\ pc' = "done"
    /\ \E res \in {ExistsJPtr(heap, doc, path)} :
         last' = Call("ExistsJPtr", "D", path, <<>>, "", NoVal, res.err, res.ret)
    /\ pre' = heap
    /\ UNCHANGED <<heap, doc, cpy, nmut, csv, alias>>

\* GetString, GetBool, GetInt, GetFloat64, GetRmap, GetIterable
CallGetByKey ==
  \E key \in Keys, T \in Types :
    /\ pc = "ready" /\ pc' = "done"
    /\ HasCells(1)
    /\ \E res \in {ByKey(T, heap, doc, key)} :
         /\ heap' = res.h
         /\ last' = Call("GetByKey", "D", <<>>, key, T, NoVal, res.err, res.ret)
    /\ pre' = heap
    /\ UNCHANGED <<doc, cpy, nmut, csv, alias>>

\* GetJPtrString, GetJPtrBool, GetJPtrInt, GetJPtrFloat64, GetJPtrRmap,
\* GetIterableJPtr and GetJPtrIterable
CallGetByPath ==
  \E path \in Paths, T \in PathTypes :
    /\ pc = "ready" /\ pc' = "done"
    /\ HasCells(1)
    /\ \E res \in {ByPathAll(T, heap, doc, path)} :
         /\ heap' = res.h
         /\ last' = Call("GetByPath", "D", path, <<>>, T, NoVal, res.err, res.ret)
    /\ pre' = heap
    /\ UNCHANGED <<doc, cpy, nmut, csv, alias>>

\* C = D.Copy()
CallCopy ==
  /\ pc = "ready" /\ pc' = "copied"
  /\ HasCells(Containers(Bytes(heap, doc)))
  /\ \E res \in {Copy(heap, doc)} :
       /\ heap' = res.h
       /\ cpy' = res.ret.ref
       /\ last' = Call("Copy", "D", <<>>, <<>>, "", NoVal, res.err, res.ret)
  /\ pre' = heap
  /\ UNCHANGED <<doc, nmut, csv, alias>>

\* MustGetJPtr, MustExistsJPtr, MustSetJPtr, MustSetJPtrRecursive, MustDeleteJPtr
CallMust ==
  \E op \in MustOps, path \in MustPaths, kind \in MustValueKinds :
    /\ pc = "ready" /\ pc' = "done"
    /\ HasCells(Len(path) + 1)
    /\ op \in {"SetJPtr", "SetJPtrRecursive"} \/ kind = "string"
    /\ \E b \in {BuildValue(heap, kind)} :
         \E res \in {MustOf(op, b.h, doc, path, b.v)} :
           /\ heap' = res.h
           /\ pre' = b.h
           /\ last' = Call("Must" \o op, "D", path, <<>>, "", b.v, res.err, res.ret)
    /\ UNCHANGED <<doc, cpy, nmut, csv, alias>>

\* MustGetString, MustGetBool, MustGetInt, MustGetFloat64, MustGetRmap, MustGetIterable
CallMustGetByKey ==
  \E key \in MustKeys, T \in Types :
    /\ pc = "ready" /\ pc' = "done"
    /\ HasCells(1)
    /\ \E res \in {MustByKey(T, heap, doc, key)} :
         /\ heap' = res.h
         /\ last' = Call("MustGetByKey", "D", <<>>, key, T, NoVal, res.err, res.ret)
    /\ pre' = heap
    /\ UNCHANGED <<doc, cpy, nmut, csv, alias>>

\* MustGetJPtrString, MustGetJPtrBool, MustGetJPtrInt, MustGetJPtrFloat64,
\* MustGetJPtrRmap, MustGetIterableJPtr and MustGetJPtrIterable
CallMustGetByPath ==
  \E path \in MustPaths, T \in PathTypes :
    /\ pc = "ready" /\ pc' = "done"
    /\ HasCells(1)
    /\ \E res \in {MustByPathAll(T, heap, doc, path)} :
         /\ heap' = res.h
         /\ last' = Call("MustGetByPath", "D", path, <<>>, T, NoVal, res.err, res.ret)
    /\ pre' = heap
    /\ UNCHANGED <<doc, cpy, nmut, csv, alias>>

Next ==
  \/ CallMust
  \/ CallMustGetByKey
  \/ CallMustGetByPath
  \/ CallSetJPtr
  \/ CallSetJPtrRecursive
  \/ CallDeleteJPtr
  \/ CallGetJPtr
  \/ CallExistsJPtr
  \/ CallGetByKey
  \/ CallGetByPath
  \/ CallCopy
  \/ SetJPtrAfterCopy
  \/ SetJPtrRecursiveAfterCopy
  \/ DeleteJPtrAfterCopy

Spec == Init /\ [][Next]_vars

(* ------------------------ RmapsToCSV, step by step --------------------- *)
(* csv: the call of RmapsToCSV under way.  docs: the documents the caller  *)
(* holds; rmaps, separator: the arguments; header: the address of the      *)
(* header map; headerKeys: its sorted keys; row: the address of row.Mapa   *)
(* while a row is filled; cells: the cells of that row; i: the documents   *)
(* done; output: the buffer; err, ret: what the call returned.  pc is      *)
(* "ready" before the call, "rows" at the head of the loop, "filled" once  *)
(* collectValues has filled the row, "done" after the return or the panic. *)

CsvInit ==
  /\ \E g \in CsvInputs : heap = g.h /\ csv = [NoCsv EXCEPT !.docs = g.docs]
  /\ doc = 1
  /\ cpy = 0
  /\ pc = "ready"
  /\ nmut = 0
  /\ last = NoCall
  /\ pre = heap
  /\ alias = NoAlias

\* lines 13-23: the header from rmaps[0], sorted and written; rmaps[0] of an
\* empty slice panics (index out of range)
CsvHeader ==
  /\ pc = "ready"
  /\ HasCells(1)
  /\ \E rmaps \in RmapSeqs(csv.docs), separator \in Separators, ord \in Orders :
       IF rmaps = <<>> THEN
         /\ pc' = "done"
         /\ heap' = heap
         /\ csv' = [csv EXCEPT !.rmaps = rmaps, !.separator = separator, !.err = Panicked]
       ELSE
         \E header \in {NewAddr(heap)} :
           \E h \in {collectKeys([heap EXCEPT ![header] = MapObj(EmptyMap)], rmaps[1], <<>>, header, ord)} :
             \E headerKeys \in {SortStrings(KeysSliceString(h, header, ord))} :
               /\ pc' = "rows"
               /\ heap' = h
               /\ csv' = [csv EXCEPT !.rmaps = rmaps, !.separator = separator, !.header = header,
                                     !.headerKeys = headerKeys,
                                     !.output = writeHeader(headerKeys, separator) \o <<"\n">>]
  /\ pre' = heap
  /\ UNCHANGED <<doc, cpy, nmut, last, alias>>

\* lines 25-32: the row as a copy of the header, filled by collectValues; an
\* error ends the call with no bytes
CsvFillRow ==
  /\ pc = "rows"
  /\ csv.i < Len(csv.rmaps)
  /\ HasCells(1 + Len(csv.headerKeys))
  /\ \E ord \in Orders :
       \E row \in {NewRow(heap, csv.header)} :
         \E f \in {collectValues(row.h, csv.rmaps[csv.i + 1], <<>>, row.ret.ref, ord)} :
           IF f.err # NoErr THEN
             /\ pc' = "done"
             /\ heap' = Release(f.h, (FreeAddrs(heap) \ FreeAddrs(f.h)) \cup {csv.header})
             /\ csv' = [csv EXCEPT !.err = f.err, !.ret = NilV]
           ELSE
             /\ pc' = "filled"
             /\ heap' = f.h
             /\ csv' = [csv EXCEPT !.row = row.ret.ref, !.cells = FreeAddrs(heap) \ FreeAddrs(f.h)]
  /\ UNCHANGED <<doc, cpy, nmut, last, pre, alias>>

\* lines 34-41: the line of the row, written after the lines before it
CsvWriteRow ==
  /\ pc = "filled"
  /\ \E w \in {writeValues(heap, csv.row, csv.headerKeys, csv.separator)} :
       IF w.err # NoErr THEN
         /\ pc' = "done"
         /\ heap' = Release(heap, csv.cells \cup {csv.header})
         /\ csv' = [csv EXCEPT !.err = w.err, !.ret = NilV, !.row = 0, !.cells = {}]
       ELSE
         /\ pc' = "rows"
         /\ heap' = Release(heap, csv.cells)
         /\ csv' = [csv EXCEPT !.output = @ \o w.ret.s \o <<"\n">>, !.i = @ + 1,
                               !.row = 0, !.cells = {}]
  /\ UNCHANGED <<doc, cpy, nmut, last, pre, alias>>

\* line 44: every document done, the buffer is returned
CsvReturn ==
  /\ pc = "rows"
  /\ csv.i = Len(csv.rmaps)
  /\ pc' = "done"
  /\ heap' = Release(heap, {csv.header})
  /\ csv' = [csv EXCEPT !.ret = StrV(csv.output)]
  /\ UNCHANGED <<doc, cpy, nmut, last, pre, alias>>

CsvNext ==
  \/ CsvHeader
  \/ CsvFillRow
  \/ CsvWriteRow
  \/ CsvReturn

CsvSpec == CsvInit /\ [][CsvNext]_vars

(* ------------------- two Documents over one mapping -------------------- *)
(* alias: a second Document E taken over storage of D, by NewFromMap on    *)
(* D.Mapa or as a sub-document from GetRmap or GetJPtrRmap; ref is the     *)
(* address of E.Mapa and at the pointer string it was taken from in D.  pc *)
(* is "ready" before E is taken, "aliased" after, "separated" once one of  *)
(* D and E was replaced by its Copy(), "done" when taking E failed.        *)

AliasKeys == {<<"a">>, <<"b">>}

\* E := NewFromMap(D.Mapa)
TakeNewFromMap ==
  /\ pc = "ready" /\ pc' = "aliased"
  /\ \E e \in {NewFromMap(doc)} :
       /\ alias' = [ref |-> e.ref, at |-> <<>>]
       /\ last' = Call("NewFromMap", "D", <<>>, <<>>, "", NoVal, NoErr, e)
  /\ pre' = heap
  /\ UNCHANGED <<heap, doc, cpy, nmut, csv>>

\* E, err := D.GetRmap(key)
TakeGetRmap ==
  \E key \in AliasKeys :
    /\ pc = "ready"
    /\ \E res \in {GetRmap(heap, doc, key)} :
         /\ heap' = res.h
         /\ pc' = IF res.err = NoErr THEN "aliased" ELSE "done"
         /\ alias' = IF res.err = NoErr THEN [ref |-> res.ret.ref, at |-> <<"/">> \o key]
                     ELSE alias
         /\ last' = Call("GetRmap", "D", <<>>, key, "Rmap", NoVal, res.err, res.ret)
    /\ pre' = heap
    /\ UNCHANGED <<doc, cpy, nmut, csv>>

\* E, err := D.GetJPtrRmap(path)
TakeGetJPtrRmap ==
  \E path \in CopyPaths :
    /\ pc = "ready"
    /\ \E res \in {GetJPtrRmap(heap, doc, path)} :
         /\ heap' = res.h
         /\ pc' = IF res.err = NoErr THEN "aliased" ELSE "done"
         /\ alias' = IF res.err = NoErr THEN [ref |-> res.ret.ref, at |-> path] ELSE alias
         /\ last' = Call("GetJPtrRmap", "D", path, <<>>, "Rmap", NoVal, res.err, res.ret)
    /\ pre' = heap
    /\ UNCHANGED <<doc, cpy, nmut, csv>>

\* one more SetJPtr or DeleteJPtr through D or through E
AfterAlias ==
  /\ pc \in {"aliased", "separated"} /\ nmut < MaxMutations
  /\ pc' = pc /\ nmut' = nmut + 1

SetJPtrAfterAlias ==
  /\ AfterAlias
  /\ \E tgt \in {"D", "E"}, path \in CopyPaths, kind \in CopyValueKinds :
       DoSetJPtr(tgt, path, kind)

DeleteJPtrAfterAlias ==
  /\ AfterAlias
  /\ \E tgt \in {"D", "E"}, path \in CopyPaths : DoDeleteJPtr(tgt, path)

\* D = D.Copy() or E = E.Copy()
ReplaceByCopy ==
  \E tgt \in {"D", "E"} :
    /\ pc = "aliased" /\ pc' = "separated"
    /\ HasCells(Containers(Bytes(heap, Root(tgt))))
    /\ \E res \in {Copy(heap, Root(tgt))} :
         /\ heap' = res.h
         /\ doc' = IF tgt = "D" THEN res.ret.ref ELSE doc
         /\ alias' = IF tgt = "E" THEN [alias EXCEPT !.ref = res.ret.ref] ELSE alias
         /\ last' = Call("Copy", tgt, <<>>, <<>>, "", NoVal, res.err, res.ret)
    /\ pre' = heap
    /\ UNCHANGED <<cpy, nmut, csv>>

AliasNext ==
  \/ TakeNewFromMap
  \/ TakeGetRmap
  \/ TakeGetJPtrRmap
  \/ SetJPtrAfterAlias
  \/ DeleteJPtrAfterAlias
  \/ ReplaceByCopy

AliasSpec == Init /\ [][AliasNext]_vars

(* ------------------------ the claims' vocabulary ----------------------- *)
(* What a pointer path addresses in a document, told independently of the  *)
(* navigator: a map is entered by the decoded key, a []interface{} by a    *)
(* decimal index.  A walk ends as "found", or at a "missing key", an index *)
(* "out of range", a "bad index" (no number), a step into a scalar or null *)
(* ("not a container"), or a step into a value kept under a Go type of its *)
(* own, an Rmap or a typed slice ("wrapped").                              *)

WellFormed(path) == NewJsonPointer(path).err = NoErr

TokensOf(path) == NewJsonPointer(path).toks

RECURSIVE Walk(_, _, _)
Walk(h, node, toks) ==
  IF toks = <<>> THEN [how |-> "found", v |-> node]
  ELSE IF node.t = "map" THEN
    LET key == decodeReferenceToken(Head(toks)) IN
    IF key \in DOMAIN h[node.ref].m THEN Walk(h, h[node.ref].m[key], Tail(toks))
    ELSE [how |-> "missing key", v |-> NoVal]
  ELSE IF node.t = "[]interface{}" THEN
    LET idx == Atoi(Head(toks)) IN
    IF ~idx.ok THEN [how |-> "bad index", v |-> NoVal]
    ELSE IF idx.val < 0 \/ idx.val >= node.n THEN [how |-> "out of range", v |-> NoVal]
    ELSE Walk(h, h[node.ref].a[idx.val + 1], Tail(toks))
  ELSE IF node.t \in {"Rmap", "[]Rmap", "[]map[string]interface{}"} THEN
    [how |-> "wrapped", v |-> NoVal]
  ELSE [how |-> "not a container", v |-> NoVal]

\* the first k segments of the last call's path, walked in the heap h
WalkPrefix(h, k) == Walk(h, MapRef(Root(last.tgt)), SubSeq(TokensOf(last.path), 1, k))

NumSegments == Len(TokensOf(last.path))

\* what the path without its last segment addresses before the call
Parent == WalkPrefix(pre, NumSegments - 1)

LastSegment == TokensOf(last.path)[NumSegments]

IsContainer(v) == v.t \in {"map", "[]interface{}"}

IsScalar(v) == v.t \in {"nil", "bool", "float64", "int", "int64", "string"}

\* some segment other than the last does not resolve to an existing container
NoContainerAtParent ==
  \/ Parent.how \in {"missing key", "out of range", "bad index", "not a container"}
  \/ Parent.how = "found" /\ IsScalar(Parent.v)

\* every segment other than the last resolves to an existing container
ParentIsContainer == Parent.how = "found" /\ IsContainer(Parent.v)

\* the last segment can be written into the parent: any key of a map, an
\* index of an existing element of an array
LastSegmentFits ==
  \/ Parent.v.t = "map"
  \/ /\ Parent.v.t = "[]interface{}"
     /\ Atoi(LastSegment).ok
     /\ Atoi(LastSegment).val >= 0
     /\ Atoi(LastSegment).val < Parent.v.n

Mentions(err, msg) == \E i \in 1..Len(err) : HasPrefix(SubSeq(err, i, Len(err)), msg)

\* a path-not-found error: a key that is absent or an index out of range
PathNotFound(err) == Mentions(err, MsgNoKey) \/ Mentions(err, MsgOutOfBound)

\* a value as the navigator keeps it: a wrapped document as its map
Stored(v) == IF v.t = "Rmap" THEN MapRef(v.ref) ELSE v

(* -------------------------------- C1 ----------------------------------- *)

C2_AbsentPath ==
  (/\ last.op = "ExistsJPtr"
   /\ WellFormed(last.path)
   /\ WalkPrefix(pre, NumSegments).how \in {"missing key", "out of range"})
  => /\ last.ret = BoolV(FALSE)
     /\ last.err = NoErr
     /\ PathNotFound(GetJPtr(pre, Root(last.tgt), last.path).err)

(* -------------------------------- C3 ----------------------------------- *)

\* C3: ExistsJPtr returns an error for a malformed pointer and for a segment
\* that steps into something that is no container, and returns true without
\* error exactly when the path resolves, a null value included.
C3_ExistsTellsAbsentFromInvalid ==
  last.op = "ExistsJPtr" =>
    /\ (~WellFormed(last.path) \/ WalkPrefix(pre, NumSegments).how = "not a container")
         => last.err # NoErr
    /\ (last.ret = BoolV(TRUE) /\ last.err = NoErr)
         <=> GetJPtr(pre, Root(last.tgt), last.path).err = NoErr
    /\ (WellFormed(last.path) /\ WalkPrefix(pre, NumSegments).how = "found")
         => (last.ret = BoolV(TRUE) /\ last.err = NoErr)

\* ExistsJPtr was asked for a path that steps into a scalar and gave an error
C3_Witness ==
  /\ last.op = "ExistsJPtr"
  /\ WellFormed(last.path)
  /\ NumSegments >= 2
  /\ WalkPrefix(pre, NumSegments).how = "not a container"
  /\ last.err # NoErr

(* -------------------------------- C4 ----------------------------------- *)

\* C4 as stated: when a segment other than the last does not resolve to an
\* existing container, SetJPtr fails with a path-not-found error and adds no
\* key anywhere in the document.
C4_SetFailsPathNotFound ==
  (/\ last.op = "SetJPtr"
   /\ WellFormed(last.path)
   /\ NumSegments >= 1
   /\ NoContainerAtParent)
  => /\ PathNotFound(last.err)
     /\ heap = pre

\* C4 amended: when a segment other than the last does not resolve to an
\* existing container, SetJPtr fails and changes nothing in the document; the
\* error is a path-not-found error exactly when the walk stops at a missing
\* key or at an index out of range.
C4_SetCreatesNoIntermediate ==
  (/\ last.op = "SetJPtr"
   /\ WellFormed(last.path)
   /\ NumSegments >= 1
   /\ NoContainerAtParent)
  => /\ last.err # NoErr
     /\ heap = pre
     /\ PathNotFound(last.err) <=> Parent.how \in {"missing key", "out of range"}

\* SetJPtr on a path whose first segment is a missing key failed and left the
\* document as it was
C4_Witness ==
  /\ last.op = "SetJPtr"
  /\ WellFormed(last.path)
  /\ NumSegments >= 2
  /\ WalkPrefix(pre, 1).how = "missing key"
  /\ PathNotFound(last.err)
  /\ heap = pre

(* -------------------------------- C5 ----------------------------------- *)

\* the key the walk takes after the first k segments
KeyAfter(k) == decodeReferenceToken(TokensOf(last.path)[k + 1])

Created == {a \in Addr : pre[a].kind = "free" /\ heap[a].kind = "map"}

\* C6: SetJPtrRecursive makes a map only where a prefix fails to resolve for a
\* missing key; for a pointer that does not start with '/', or a prefix that
\* steps into a scalar or an index out of range, it returns an error and
\* creates nothing.
C6_SetRecursiveCreatesOnlyForMissingKey ==
  last.op = "SetJPtrRecursive" =>
    /\ (\/ ~WellFormed(last.path)
        \/ /\ WellFormed(last.path)
           /\ NumSegments >= 1
           /\ Parent.how \in {"not a container", "out of range"})
         => /\ last.err \notin {NoErr, Panicked}
            /\ heap = pre
    /\ Created # {}
         => /\ WellFormed(last.path)
            /\ \E k \in 1..(NumSegments - 1) : WalkPrefix(pre, k).how = "missing key"

(* -------------------------------- C7 ----------------------------------- *)

\* C7 as stated: where P resolves and its last segment is a key of a map,
\* DeleteJPtr(P) succeeds, ExistsJPtr(P) is then false and a second
\* DeleteJPtr(P) fails; where P does not resolve, DeleteJPtr(P) returns a
\* path-not-found error.
C7_DeleteFailsPathNotFound ==
  last.op = "DeleteJPtr" /\ WellFormed(last.path) =>
    /\ (NumSegments >= 1 /\ WalkPrefix(pre, NumSegments).how = "found" /\ Parent.v.t = "map")
         => /\ last.err = NoErr
            /\ ExistsJPtr(heap, Root(last.tgt), last.path) = Res(heap, NoErr, BoolV(FALSE))
            /\ DeleteJPtr(heap, Root(last.tgt), last.path).err # NoErr
    /\ WalkPrefix(pre, NumSegments).how
           \in {"missing key", "out of range", "bad index", "not a container"}
         => PathNotFound(last.err)

\* C7 amended: where P resolves and its last segment is a key of a map,
\* DeleteJPtr(P) succeeds, ExistsJPtr(P) is then false and a second
\* DeleteJPtr(P) fails; where P does not resolve, DeleteJPtr(P) returns an
\* error and changes nothing, and the error is a path-not-found error exactly
\* when the walk stops at a missing key or at an index out of range.
C7_DeleteRemovesKey ==
  last.op = "DeleteJPtr" /\ WellFormed(last.path) =>
    /\ (NumSegments >= 1 /\ WalkPrefix(pre, NumSegments).how = "found" /\ Parent.v.t = "map")
         => /\ last.err = NoErr
            /\ ExistsJPtr(heap, Root(last.tgt), last.path) = Res(heap, NoErr, BoolV(FALSE))
            /\ DeleteJPtr(heap, Root(last.tgt), last.path).err # NoErr
    /\ WalkPrefix(pre, NumSegments).how
           \in {"missing key", "out of range", "bad index", "not a container"}
         => /\ last.err # NoErr
            /\ heap = pre
            /\ PathNotFound(last.err)
                 <=> WalkPrefix(pre, NumSegments).how \in {"missing key", "out of range"}

\* DeleteJPtr removed a key of a nested map
C7_Witness ==
  /\ last.op = "DeleteJPtr"
  /\ WellFormed(last.path)
  /\ NumSegments >= 2
  /\ WalkPrefix(pre, NumSegments).how = "found"
  /\ Parent.v.t = "map"
  /\ last.err = NoErr
  /\ WalkPrefix(heap, NumSegments).how = "missing key"

(* -------------------------------- C8 ----------------------------------- *)

\* the maps and backing arrays a value of the object at a points to
Refs(h, a) ==
  {v.ref : v \in {h[a].m[k] : k \in DOMAIN h[a].m} \cup {h[a].a[i] : i \in 1..Len(h[a].a)}} \ {0}

RECURSIVE ReachFrom(_, _, _)
ReachFrom(h, S, n) ==
  IF n = 0 THEN S ELSE ReachFrom(h, S \cup UNION {Refs(h, a) : a \in S}, n - 1)

\* everything of the heap a document is made of
Reach(h, r) == ReachFrom(h, {r}, MaxAddr)

\* C8: C = D.Copy() has the content of D and shares no map or array with it;
\* a SetJPtr, SetJPtrRecursive or DeleteJPtr on C, at any depth, leaves the
\* content of D as it was, and one on D leaves the content of C as it was.
C8_CopyIsIndependent ==
  pc = "copied" =>
    /\ Reach(heap, cpy) \cap Reach(heap, doc) = {}
    /\ last.op = "Copy" => Bytes(heap, cpy) = Bytes(heap, doc)
    /\ last.op # "Copy" /\ last.tgt = "C" => Bytes(heap, doc) = Bytes(pre, doc)
    /\ last.op # "Copy" /\ last.tgt = "D" => Bytes(heap, cpy) = Bytes(pre, cpy)

\* a value was set inside a nested container of the copy: the copy changed,
\* the original did not
C8_Witness ==
  /\ pc = "copied"
  /\ last.op = "SetJPtr"
  /\ last.tgt = "C"
  /\ NumSegments = 2
  /\ last.err = NoErr
  /\ Bytes(heap, cpy) # Bytes(pre, cpy)
  /\ Bytes(heap, doc) = Bytes(pre, doc)

(* -------------------------------- C9 ----------------------------------- *)

\* what the last getter call addresses: the value under its key, or at its path
Addressed ==
  IF last.op = "GetByKey" THEN
    IF last.key \in DOMAIN pre[doc].m THEN [how |-> "found", v |-> pre[doc].m[last.key]]
    ELSE [how |-> "missing key", v |-> NoVal]
  ELSE IF WellFormed(last.path) THEN WalkPrefix(pre, NumSegments)
  ELSE [how |-> "malformed", v |-> NoVal]

\* a type error: the message says what the value "is not"
TypeMismatch(err) == Mentions(err, <<"is", "not">>)

\* C9: GetInt and GetJPtrInt return n for a stored float64 n.0 and for a
\* stored integer n, and fail with a type error for a value of any other type.
C9_IntegerExtraction ==
  (/\ last.op \in {"GetByKey", "GetByPath"}
   /\ last.T = "Int"
   /\ Addressed.how = "found")
  => LET v == Addressed.v IN
     /\ (v.t = "float64" /\ v.n % 10 = 0) => (last.err = NoErr /\ last.ret = IntV(v.n \div 10))
     /\ v.t \in {"int", "int64"} => (last.err = NoErr /\ last.ret = IntV(v.n))
     /\ v.t \notin {"float64", "int", "int64"} => TypeMismatch(last.err)

(* -------------------------------- C10 ---------------------------------- *)

\* C10: for a key k with no '/' and no '~' in it, the getter by key and the
\* getter by pointer "/" + k of the same type both fail or both return the
\* same value.
C10_KeyAndPointerAgree ==
  (/\ last.op = "GetByKey"
   /\ \A i \in 1..Len(last.key) : last.key[i] \notin {"/", "~"})
  => LET byPath == ByPath(last.T, pre, doc, <<"/">> \o last.key) IN
     /\ last.err = NoErr <=> byPath.err = NoErr
     /\ last.err = NoErr => last.ret = byPath.ret

(* -------------------------------- C11 ---------------------------------- *)

\* what the operation X itself does on the input of the last call, a MustX
MustCalled == last.op \in {"Must" \o op : op \in MustOps} \cup {"MustGetByKey", "MustGetByPath"}

OfLastMust ==
  CASE last.op = "MustGetByKey" -> ByKey(last.T, pre, Root(last.tgt), last.key)
    [] last.op = "MustGetByPath" -> ByPathAll(last.T, pre, Root(last.tgt), last.path)
    [] OTHER -> Fallible(CHOOSE op \in MustOps : last.op = "Must" \o op,
                         pre, Root(last.tgt), last.path, last.arg)

ReturnsError(res) == res.err # NoErr /\ ~Aborted(res.err)

\* C11: Must duality.  For every fallible operation X with a Must variant and
\* every input, MustX aborts exactly when X returns an error, and otherwise
\* MustX returns the value X returns and leaves the document as X leaves it.
C11_MustDuality ==
  MustCalled =>
    /\ Aborted(last.err) <=> ReturnsError(OfLastMust)
    /\ ~Aborted(last.err) => last.ret = OfLastMust.ret /\ heap = OfLastMust.h

(* -------------------------------- C12 ---------------------------------- *)

\* the value a GetIterable(key) or GetIterableJPtr(path) call addresses
IterableCalled == last.op \in {"GetByKey", "GetByPath"} /\ last.T = "Iterable"

IterableTarget ==
  IF last.op = "GetByKey" THEN
    IF last.key \in DOMAIN pre[Root(last.tgt)].m
    THEN [how |-> "found", v |-> pre[Root(last.tgt)].m[last.key]]
    ELSE [how |-> "missing key", v |-> NoVal]
  ELSE IF WellFormed(last.path) THEN WalkPrefix(pre, NumSegments)
  ELSE [how |-> "malformed", v |-> NoVal]

\* the elements of a slice value, in order
Elements(h, v) == IF v.n = 0 THEN <<>> ELSE SubSeq(h[v.ref].a, 1, v.n)

IsIterableShape(v) == v.t \in {"[]interface{}", "[]Rmap", "[]map[string]interface{}"}

NotIterable(err) == Mentions(err, <<"is", "not", "of", "type", "ARRAY">>)

\* C12: GetIterable(key) and GetIterableJPtr(path) return the addressed value
\* as a sequence of the same length and element order when it is an array, a
\* slice of Documents or a slice of plain mappings, and fail with a
\* not-iterable error when it is of any other shape (scalar, Document, null).
C12_ToIterable ==
  (IterableCalled /\ IterableTarget.how = "found") =>
    IF IsIterableShape(IterableTarget.v)
    THEN /\ last.err = NoErr
         /\ last.ret.t = "[]interface{}"
         /\ last.ret.n = IterableTarget.v.n
         /\ Elements(heap, last.ret) = Elements(pre, IterableTarget.v)
    ELSE NotIterable(last.err)

\* GetIterableJPtr on a slice of Documents that has an element
C12_Witness ==
  /\ IterableCalled
  /\ last.op = "GetByPath"
  /\ IterableTarget.how = "found"
  /\ IterableTarget.v.t = "[]Rmap"
  /\ IterableTarget.v.n >= 1
  /\ last.err = NoErr

(* -------------------------------- C13 ---------------------------------- *)

\* a Document or plain nested mapping, as against a leaf
IsDocument(v) == v.t \in {"map", "Rmap"}

\* the key sequences from the map at a to each leaf below it, told without
\* any visiting order
RECURSIVE LeafPaths(_, _, _)
LeafPaths(h, a, prefix) ==
  UNION {IF IsDocument(h[a].m[k]) THEN LeafPaths(h, h[a].m[k].ref, Append(prefix, k))
         ELSE {Append(prefix, k)} : k \in DOMAIN h[a].m}

Dotted(p) == Join(p, ".")

LeafKeys(h, a) == {Dotted(p) : p \in LeafPaths(h, a, <<>>)}

\* the header map has just been collected from rmaps[0]
HeaderCollected == pc = "rows" /\ csv.i = 0

\* the keys collectKeys gives for rmaps[0] when maps are visited in order ord
CollectedIn(ord) ==
  DOMAIN collectKeys([pre EXCEPT ![csv.header] = MapObj(EmptyMap)], csv.rmaps[1], <<>>,
                     csv.header, ord)[csv.header].m

\* C13: for a tree-shaped document D, collectKeys returns exactly the set of
\* dot-joined key sequences from the root to each value that is not a Document
\* or plain nested mapping: arrays are leaves, nested documents are no keys
\* themselves, and the set is the same whatever order sibling keys are
\* visited in.
C13_CollectKeys ==
  HeaderCollected =>
    /\ DOMAIN heap[csv.header].m = LeafKeys(pre, csv.rmaps[1])
    /\ \A ord \in Orders : CollectedIn(ord) = LeafKeys(pre, csv.rmaps[1])

\* the keys of a document that holds a wrapped document and an array of mappings
C13_Witness ==
  /\ HeaderCollected
  /\ \E k \in DOMAIN pre[csv.rmaps[1]].m : pre[csv.rmaps[1]].m[k].t = "Rmap"
  /\ \E k \in DOMAIN pre[csv.rmaps[1]].m :
       /\ pre[csv.rmaps[1]].m[k].t = "[]interface{}"
       /\ pre[pre[csv.rmaps[1]].m[k].ref].a[1].t = "map"
  /\ Cardinality(DOMAIN heap[csv.header].m) = 2

(* -------------------------------- C14 ---------------------------------- *)

\* the call got past the header: rmaps is not empty
HeaderWritten == pc \in {"rows", "filled", "done"} /\ csv.rmaps # <<>>

\* strictly ascending in byte order: sorted, and no string twice
Ascending(keys) == \A i \in 1..(Len(keys) - 1) : StrLess(keys[i], keys[i + 1])

Elems(keys) == {keys[i] : i \in 1..Len(keys)}

\* the header keys RmapsToCSV gets when maps are visited in order ord
HeaderKeysIn(ord) ==
  SortStrings(KeysSliceString(
    collectKeys([pre EXCEPT ![csv.header] = MapObj(EmptyMap)], csv.rmaps[1], <<>>, csv.header, ord),
    csv.header, ord))

\* C14: the header line of RmapsToCSV is the leaf paths of the first document
\* only, without duplicates, in ascending lexicographic order, joined by the
\* separator; it is the same for every iteration order of the first document
\* and whatever documents follow.
C14_HeaderLine ==
  HeaderWritten =>
    /\ Elems(csv.headerKeys) = LeafKeys(pre, csv.rmaps[1])
    /\ Ascending(csv.headerKeys)
    /\ HasPrefix(csv.output, Join(csv.headerKeys, csv.separator) \o <<"\n">>)
    /\ \A ord \in Orders : HeaderKeysIn(ord) = csv.headerKeys

\* a finished call on two different documents, the first with several leaves
C14_Witness ==
  /\ HeaderWritten
  /\ pc = "done"
  /\ csv.err = NoErr
  /\ Len(csv.rmaps) = 2
  /\ csv.rmaps[1] # csv.rmaps[2]
  /\ Len(csv.headerKeys) >= 2
  /\ LeafKeys(pre, csv.rmaps[2]) # LeafKeys(pre, csv.rmaps[1])

(* -------------------------------- C15 ---------------------------------- *)

\* the leaf paths of document number i that are no header key
Unexpected(i) == LeafKeys(pre, csv.rmaps[i]) \ Elems(csv.headerKeys)

\* the call of RmapsToCSV on a non-empty sequence is over
CsvDone == pc = "done" /\ csv.rmaps # <<>>

\* C15: if a document at any position has a leaf whose dotted path is not a
\* header key, RmapsToCSV fails with an unexpected-key error that names such a
\* path and returns no bytes, also when rows before it were serialized.
C15_UnexpectedKey ==
  (CsvDone /\ \E i \in 1..Len(csv.rmaps) : Unexpected(i) # {}) =>
    /\ csv.ret = NilV
    /\ \E i \in 1..Len(csv.rmaps) : \E key \in Unexpected(i) : csv.err = MsgUnexpectedKey(key)

\* the second document has the unexpected key; the first is already written
C15_Witness ==
  /\ CsvDone
  /\ Unexpected(1) = {}
  /\ Len(csv.rmaps) = 2
  /\ Unexpected(2) # {}
  /\ csv.i = 1
  /\ Len(csv.output) > Len(Join(csv.headerKeys, csv.separator)) + 1
  /\ csv.ret = NilV

(* -------------------------------- C16 ---------------------------------- *)

\* C16: RmapsToCSV called with an empty document sequence fails with an
\* EmptyInput error returned to the caller: the call comes back, with an
\* error and no bytes, and does not abort.
C16_EmptyInput ==
  (pc = "done" /\ csv.rmaps = <<>>) =>
    /\ csv.err # NoErr
    /\ ~Aborted(csv.err)
    /\ csv.ret = NilV

(* -------------------------------- C17 ---------------------------------- *)

\* the value under the key sequence p below the map at a
RECURSIVE ValueAt(_, _, _)
ValueAt(h, a, p) ==
  IF Len(p) = 1 THEN h[a].m[p[1]] ELSE ValueAt(h, h[a].m[p[1]].ref, Tail(p))

\* the leaves of document number i whose dotted path is key
LeavesAt(i, key) ==
  {ValueAt(pre, csv.rmaps[i], p) :
     p \in {q \in LeafPaths(pre, csv.rmaps[i], <<>>) : Dotted(q) = key}}

\* a leaf as the row is to hold it: a string without its newlines, a number
\* as it is, anything else as its generic stringification
IsNumber(v) == v.t \in {"float64", "int", "int64"}

Coerced(v) ==
  IF v.t = "string" THEN StrV(ReplaceAll(v.s, <<"\n">>, <<>>))
  ELSE IF IsNumber(v) THEN v
  ELSE StrV(Sprintf(pre, v))

\* a row value as a field of the line: a string holding the separator in
\* double quotes and without its own, anything else as formatted
Quoted(v) == <<"\"">> \o ReplaceAll(v.s, <<"\"">>, <<>>) \o <<"\"">>

HoldsSeparator(v) == \E j \in 1..Len(v.s) : v.s[j] = csv.separator

Serialized(h, v) ==
  IF v.t = "string" THEN (IF HoldsSeparator(v) THEN Quoted(v) ELSE v.s)
  ELSE Sprintf(h, v)

\* the placeholder of a header key the document has no leaf for
PlaceholderText == <<"m", "a", "p", "[", "]">>

\* the texts the field of document i under a header key may hold
SerializedAt(i, key) ==
  IF LeavesAt(i, key) = {} THEN {PlaceholderText}
  ELSE {Serialized(pre, Coerced(v)) : v \in LeavesAt(i, key)}

\* the lines document i may give: for every header key, in order, one of its texts
LinesFor(i) ==
  LET n == Len(csv.headerKeys)
      texts == UNION {SerializedAt(i, csv.headerKeys[j]) : j \in 1..n}
  IN {Join(f, csv.separator) :
        f \in {g \in [1..n -> texts] : \A j \in 1..n : g[j] \in SerializedAt(i, csv.headerKeys[j])}}

CsvSucceeded == CsvDone /\ csv.err = NoErr

\* C17: for a non-empty sequence of n documents on which projection succeeds,
\* the output is exactly n+1 newline-terminated lines: the header line, then
\* one line per document in input order, holding for each header key in
\* sorted order the serialized value of that document at that key.
C17_Lines ==
  CsvSucceeded =>
    LET lines == Split(csv.ret.s, "\n")
        n == Len(csv.rmaps)
    IN /\ Len(lines) = n + 2
       /\ lines[n + 2] = <<>>
       /\ lines[1] = Join(csv.headerKeys, csv.separator)
       /\ \A i \in 1..n : lines[i + 1] \in LinesFor(i)

(* -------------------------------- C18 ---------------------------------- *)

\* the fields of the row being written, each from the value the row holds
FieldsOfRow ==
  [j \in 1..Len(csv.headerKeys) |-> Serialized(heap, heap[csv.row].m[csv.headerKeys[j]])]

\* C18: field quoting.  Writing a row emits a field whose value is a string
\* containing the separator wrapped in double quotes, with every double-quote
\* character of the value removed; a string field that does not contain the
\* separator is emitted as it is, no quotes added and its own kept.
C18_FieldQuoting ==
  [][(pc = "filled" /\ pc' = "rows") =>
       csv'.output = csv.output \o Join(FieldsOfRow, csv.separator) \o <<"\n">>]_vars

\* a line written with the string x,"y under the separator ',' : "x,y"
C18_Witness ==
  /\ pc = "rows"
  /\ csv.i >= 1
  /\ csv.separator = ","
  /\ \E k \in DOMAIN pre[csv.rmaps[1]].m : pre[csv.rmaps[1]].m[k] = StrV(<<"x", ",", "\"", "y">>)
  /\ Mentions(csv.output, <<"\"", "x", ",", "y", "\"">>)

(* -------------------------------- C19 ---------------------------------- *)

\* the row of document number csv.i + 1 has been filled
RowFilled == pc = "filled"

\* C19: leaf coercion when filling a row.  Every newline of a string leaf is
\* removed, a numeric leaf (float or integer) is stored unchanged as a number,
\* and a leaf of any other type (bool, null, array) is stored as its generic
\* stringification.
C19_LeafCoercion ==
  RowFilled =>
    \A key \in LeafKeys(pre, csv.rmaps[csv.i + 1]) :
      heap[csv.row].m[key] \in {Coerced(v) : v \in LeavesAt(csv.i + 1, key)}

(* -------------------------------- C20 ---------------------------------- *)

\* the placeholder a row starts with under every header key: an empty mapping
IsPlaceholder(h, v) == v.t = "map" /\ h[v.ref].m = EmptyMap

\* the leaf paths of document number i are a strict subset of the header
StrictSubset(i) ==
  /\ LeafKeys(pre, csv.rmaps[i]) \subseteq Elems(csv.headerKeys)
  /\ LeafKeys(pre, csv.rmaps[i]) # Elems(csv.headerKeys)

\* C20: every row starts with every header key mapped to a placeholder, so a
\* document whose leaf paths are a strict subset of the header, one with an
\* empty nested document at a header path included, projects successfully and
\* its row still has one field per header key, the missing ones holding the
\* placeholder.
C20_RowPrepopulated ==
  /\ (CsvDone /\ \A i \in 1..Len(csv.rmaps) : Unexpected(i) = {}) => csv.err = NoErr
  /\ (pc = "rows" /\ csv.i < Len(csv.rmaps)) => DOMAIN heap[csv.header].m = Elems(csv.headerKeys)
  /\ (RowFilled /\ StrictSubset(csv.i + 1)) =>
       /\ DOMAIN heap[csv.row].m = Elems(csv.headerKeys)
       /\ \A key \in Elems(csv.headerKeys) \ LeafKeys(pre, csv.rmaps[csv.i + 1]) :
            IsPlaceholder(heap, heap[csv.row].m[key])

\* the filled row of a document that has an empty nested document where the
\* header has a path, and fewer leaves than the header
C20_Witness ==
  /\ RowFilled
  /\ StrictSubset(csv.i + 1)
  /\ \E k \in DOMAIN pre[csv.rmaps[csv.i + 1]].m :
       /\ IsDocument(pre[csv.rmaps[csv.i + 1]].m[k])
       /\ pre[pre[csv.rmaps[csv.i + 1]].m[k].ref].m = EmptyMap
       /\ \E key \in Elems(csv.headerKeys) : HasPrefix(key, k \o <<".">>)

(* -------------------------------- C21 ---------------------------------- *)

\* the heap once the header of the call is collected, from the heap the call
\* found and nothing else
HeaderHeap ==
  collectKeys([pre EXCEPT ![csv.header] = MapObj(EmptyMap)], csv.rmaps[1], <<>>, csv.header,
              [rev |-> FALSE, rot |-> 0])

\* the line of document number i, from the header, the separator and that
\* document alone, its maps visited in order ord
LineAlone(i, ord) ==
  LET row == NewRow(HeaderHeap, csv.header)
      filled == collectValues(row.h, csv.rmaps[i], <<>>, row.ret.ref, ord)
  IN writeValues(filled.h, row.ret.ref, SortKeys(DOMAIN HeaderHeap[csv.header].m),
                 csv.separator).ret.s

\* C21: the header is derived once and shared immutably across rows.  Filling
\* and writing a row leaves the header map as it was collected, and the line
\* written for document i is the line that the header, the separator and
\* document i give alone, whatever documents came before it.
C21_HeaderShared ==
  [][/\ (pc \in {"rows", "filled"} /\ pc' \in {"rows", "filled"}) =>
          /\ heap'[csv.header] = heap[csv.header]
          /\ heap[csv.header] = HeaderHeap[csv.header]
          /\ csv'.headerKeys = csv.headerKeys
     /\ (pc = "filled" /\ pc' = "rows") =>
          \E ord \in Orders : csv'.output = csv.output \o LineAlone(csv.i + 1, ord) \o <<"\n">>]_vars

\* the second line is written, for a document with fewer leaves than the
\* first one, whose values filled the row before
C21_Witness ==
  /\ pc = "rows"
  /\ csv.i = 2
  /\ csv.rmaps[1] # csv.rmaps[2]
  /\ LeafKeys(pre, csv.rmaps[1]) = Elems(csv.headerKeys)
  /\ StrictSubset(2)

(* -------------------------------- C22 ---------------------------------- *)

\* how often the separator occurs in a line outside double-quoted fields
RECURSIVE SeparatorsOutsideQuotes(_, _)
SeparatorsOutsideQuotes(line, inQuotes) ==
  IF line = <<>> THEN 0
  ELSE IF Head(line) = "\"" THEN SeparatorsOutsideQuotes(Tail(line), ~inQuotes)
  ELSE (IF Head(line) = csv.separator /\ ~inQuotes THEN 1 ELSE 0)
         + SeparatorsOutsideQuotes(Tail(line), inQuotes)

\* the newline-terminated lines of the returned bytes
OutputLines ==
  LET fields == Split(csv.ret.s, "\n") IN SubSeq(fields, 1, Len(fields) - 1)

\* C22: the projection is rectangular.  In every successful output the header
\* line and every row line hold the same number of fields: on each line the
\* separator occurs outside double-quoted fields exactly (number of header
\* keys - 1) times, for every separator, header key text and leaf value type.
C22_Rectangular ==
  CsvSucceeded =>
    \A l \in 1..Len(OutputLines) :
      SeparatorsOutsideQuotes(OutputLines[l], FALSE) = Len(csv.headerKeys) - 1

(* -------------------------------- C23 ---------------------------------- *)

\* the value with a plain mapping in the place of a wrapped Document
PlainValue(v) ==
  CASE v.t = "Rmap" -> MapRef(v.ref)
    [] v.t = "[]Rmap" -> SliceOfMap(v.ref, v.n)
    [] OTHER -> v

\* the heap with a plain mapping in the place of every wrapped Document
Plain(h) ==
  [a \in Addr |->
     [h[a] EXCEPT !.m = [k \in DOMAIN h[a].m |-> PlainValue(h[a].m[k])],
                  !.a = [i \in 1..Len(h[a].a) |-> PlainValue(h[a].a[i])]]]

\* the maps and arrays of r that hold a wrapped Document
HoldersOfWrapped(h, r) ==
  {a \in Reach(h, r) : \/ \E k \in DOMAIN h[a].m : h[a].m[k].t = "Rmap"
                       \/ \E i \in 1..Len(h[a].a) : h[a].a[i].t = "Rmap"}

\* C23: a document that holds a wrapped Document (Rmap) as a nested value, at
\* any depth, serializes with Bytes() to the JSON of the document holding the
\* plain mapping in its place, with no wrapper key; its Copy() then has the
\* content of the plain-mapping document and holds no wrapped Document.
C23_NestedRmapMarshal ==
  /\ Bytes(heap, doc) = Bytes(Plain(heap), doc)
  /\ (pc = "copied" /\ last.op = "Copy") =>
       /\ Bytes(heap, cpy) = Bytes(Plain(pre), doc)
       /\ HoldersOfWrapped(heap, cpy) = {}

C23_Witness ==
  /\ pc = "copied" /\ last.op = "Copy"
  /\ HoldersOfWrapped(pre, doc) # {}

(* -------------------------------- C24 ---------------------------------- *)

\* what D holds at the place E was taken from
HeldByParent == GetJPtr(heap, doc, alias.at)

\* D and E share storage: the Document D holds where E was taken from is
\* the mapping E is over
Shares ==
  /\ HeldByParent.err = NoErr
  /\ IsDocument(HeldByParent.ret)
  /\ HeldByParent.ret.ref = alias.ref

\* GetJPtr through the other side than the one last written through, at the
\* path that names the written place from there: through E the path below
\* the place E was taken from, through D the lookup of E's Document and then
\* the written path inside it
ThroughOther ==
  IF last.tgt = "E"
  THEN GetJPtr(heap, Stored(HeldByParent.ret).ref, last.path)
  ELSE GetJPtr(heap, alias.ref, SubSeq(last.path, Len(alias.at) + 1, Len(last.path)))

ThroughSame == GetJPtr(heap, Root(last.tgt), last.path)

Wrote == last.op \in {"SetJPtr", "DeleteJPtr"} /\ last.err = NoErr

\* the last write was below the place E was taken from, not at it or above it
WroteInside ==
  /\ Wrote
  /\ last.tgt = "D" => /\ Len(last.path) > Len(alias.at)
                       /\ SubSeq(last.path, 1, Len(alias.at) + 1) = alias.at \o <<"/">>

\* what the two sides say of the written place, heap aside
Visible ==
  /\ ThroughOther.err = ThroughSame.err
  /\ ThroughOther.ret = ThroughSame.ret
  /\ last.op = "SetJPtr" => ThroughOther.err = NoErr /\ ThroughOther.ret = Stored(last.arg)

\* the last call was a write through D at the place E was taken from or above
\* it: D no longer holds the mapping of E
Detached ==
  /\ Wrote /\ last.tgt = "D" /\ alias.at # <<>>
  /\ \E k \in 1..Len(TokensOf(alias.at)) :
       TokensOf(last.path) = SubSeq(TokensOf(alias.at), 1, k)

FallibleOps == {"GetJPtr", "ExistsJPtr", "SetJPtr", "SetJPtrRecursive", "DeleteJPtr"}

\* C25: aborts occur only in Must variants.  For every document and every
\* path string, the empty string and strings that do not start with '/'
\* included, GetJPtr, ExistsJPtr, SetJPtr, SetJPtrRecursive and DeleteJPtr
\* return a value or an error and never abort the caller.
C25_FallibleNeverAborts ==
  last.op \in FallibleOps => ~Aborted(last.err)

(* -------------------------------- C26 ---------------------------------- *)

\* the maps and arrays the caller's documents were made of when RmapsToCSV
\* was called
InputCells == UNION {Reach(pre, d) : d \in csv.docs}

\* a string leaf of document i that processValue stores changed
HoldsNewline(i) ==
  \E k \in DOMAIN pre[csv.rmaps[i]].m :
    LET v == pre[csv.rmaps[i]].m[k]
    IN v.t = "string" /\ Index(v.s, <<"\n">>) # 0 - 1

\* C26: RmapsToCSV is read-only on its inputs.  At every step of the call and
\* after it, whether it succeeded or failed, every map and array of every
\* input document is as the call found it: rows are filled in a per-row copy
\* of the header, never in the documents.
C26_InputsUnchanged ==
  \A a \in InputCells : heap[a] = pre[a]

C26_Witness ==
  /\ CsvSucceeded
  /\ \E i \in 1..Len(csv.rmaps) : HoldsNewline(i)

(* -------------------------------- C27 ---------------------------------- *)

\* the header line when the maps of rmaps[0] and the header map are ranged
\* over in order ord
HeaderLineIn(ord) ==
  LET h == collectKeys([pre EXCEPT ![csv.header] = MapObj(EmptyMap)], csv.rmaps[1], <<>>,
                       csv.header, ord)
  IN writeHeader(SortStrings(KeysSliceString(h, csv.header, ord)), csv.separator) \o <<"\n">>

\* what lines 25-41 do for document i when its maps are ranged over in order
\* ord: whether they succeed, and the line they write
RowOutcome(i, ord) ==
  LET row == NewRow(heap, csv.header)
      f == collectValues(row.h, csv.rmaps[i], <<>>, row.ret.ref, ord)
      w == writeValues(f.h, row.ret.ref, csv.headerKeys, csv.separator)
  IN IF f.err # NoErr \/ w.err # NoErr THEN [ok |-> FALSE, line |-> <<>>]
     ELSE [ok |-> TRUE, line |-> w.ret.s]

\* C27: RmapsToCSV is deterministic.  For a fixed document sequence and
\* separator, whether the call succeeds and the bytes it returns are the same
\* for every order the keys of each mapping are iterated in: the header line
\* is the same for every order, and so are, for every document, the success
\* and the line of its row, also when two leaves of a document flatten to the
\* same dotted path.
C27_Deterministic ==
  (pc = "rows" /\ csv.i = 0) =>
    /\ \A ord \in Orders : HeaderLineIn(ord) = csv.output
    /\ \A i \in 1..Len(csv.rmaps) :
         \A o1, o2 \in Orders : RowOutcome(i, o1) = RowOutcome(i, o2)

(* -------------------------------- C28 ---------------------------------- *)

\* no key on the way to a leaf of the document at a holds '.', '/' or '~'
PlainKeys(h, a) ==
  \A p \in LeafPaths(h, a, <<>>) :
    \A j \in 1..Len(p) : \A c \in 1..Len(p[j]) : p[j][c] \notin {".", "/", "~"}

\* the pointer string /k1/k2/.../kn of the dotted path k1.k2...kn
PointerOf(dotted) == <<"/">> \o Join(Split(dotted, "."), "/")

\* C28: the Key Collector and the Path Navigator agree on what a Document
\* is.  For every document D whose keys hold no '.', '/' or '~' and every
\* dotted path k1.k2...kn collectKeys(D) returns, GetJPtr(D, /k1/k2/.../kn)
\* succeeds and returns that leaf, also when a Document on the way is stored
\* wrapped (Rmap) and not as a plain mapping.
C28_CollectorAgreesWithNavigator ==
  (HeaderCollected /\ PlainKeys(pre, csv.rmaps[1])) =>
    \A n \in 1..Len(csv.headerKeys) :
      LET g == GetJPtr(pre, csv.rmaps[1], PointerOf(csv.headerKeys[n]))
      IN /\ g.err = NoErr
         /\ g.ret = ValueAt(pre, csv.rmaps[1], Split(csv.headerKeys[n], "."))

====
